---- MODULE Spec2Model ----
(***************************************************************************)
(* A model of the dnsres resolution monitor: the per-server circuit        *)
(* breaker (package circuitbreaker), the sharded TTL cache (package cache),*)
(* the resolver's event bus (package dnsres, eventBus), the response       *)
(* comparison (package dnsanalysis), the resolution cycle (resolveAll,      *)
(* resolveWithServer), the per-server statistics (ServerStats), the client *)
(* pool (package dnspool), Start and runLoop, and the health checker       *)
(* (package health).                                                       *)
(*                                                                         *)
(* Each component has its own specification (SpecBreaker, SpecCache,       *)
(* SpecCacheSizes, SpecCacheWriters, SpecBus, SpecCompare, SpecFanOut,     *)
(* SpecCycle, SpecAllSucceed, SpecGetClient, SpecStats, SpecPool,          *)
(* SpecLoop, SpecHealth) over the shared wall clock `now`; the variables   *)
(* of the components a specification does not exercise stay at their       *)
(* initial values in it.                                                   *)
(***************************************************************************)
EXTENDS Integers, Naturals, Sequences, FiniteSets, TLC

\* ------------------------------------------------------------------ bounds
\* Wall-clock instants explored after process start.
MaxTime == 2
\* Largest circuit_breaker.threshold configured.
MaxThreshold == 2
\* Largest circuit_breaker.timeout configured (in clock ticks).
MaxTimeout == 2
\* Cap on the breaker_failures_total counter (bounds the breaker run).
MaxCounter == 5

\* ---------------------------------------------------------- configuration
\* config.Hostnames and config.DNSServers.
VARIABLES hostnames, servers

\* ------------------------------------------------------------------ clock
VARIABLES now

\* The zero time.Time (lastError before any failure) lies further in the past
\* than any timeout: the clock starts past it.
ZeroTime == 0
ProcessStart == ZeroTime + MaxTimeout + 1
LastInstant == ProcessStart + MaxTime

\* time.Since(t)
Since(t) == now - t

\* =================================================================== breaker
\* circuitbreaker.State
Closed == 0
Open == 1
HalfOpen == 2

\* The servers a configuration names: without a port, and with one.
BareServers == {"s1", "s2"}
Servers == BareServers \cup {"s1:53"}
\* The hostnames a configuration names.
Hostnames == {"a", "b", "r"}
\* The breaker exercised by SpecBreaker (the map holds one per server).
BreakerUnderTest == {"s1"}

VARIABLES threshold, timeout, failures, lastError, cbStateGauge, cbFailuresTotal, cbOp

bvars == <<threshold, timeout, failures, lastError, cbStateGauge, cbFailuresTotal, cbOp>>

\* The record of the last breaker call: what it was, on which breaker, what it
\* returned, and the breaker as the call found it.
NoBreakerOp ==
    [op |-> "none", server |-> "", ret |-> "", preFailures |-> 0,
     preLastError |-> 0, preCounter |-> 0, preGauge |-> 0]

BreakerCall(name, s, ret) ==
    [op |-> name, server |-> s, ret |-> ret, preFailures |-> failures[s],
     preLastError |-> lastError[s], preCounter |-> cbFailuresTotal[s],
     preGauge |-> cbStateGauge[s]]

\* NewCircuitBreaker, one per configured server; Config.Validate admits only a
\* positive threshold and a positive timeout.
BreakerInit ==
    /\ threshold \in 1..MaxThreshold
    /\ timeout \in 1..MaxTimeout
    /\ failures = [s \in Servers |-> 0]
    /\ lastError = [s \in Servers |-> ZeroTime]
    /\ cbStateGauge = [s \in Servers |-> 0]
    /\ cbFailuresTotal = [s \in Servers |-> 0]
    /\ cbOp = NoBreakerOp

\* Allow's return value.
AllowReturnInclusive(s) ==
    IF failures[s] >= threshold
    THEN IF Since(lastError[s]) <= timeout THEN FALSE ELSE TRUE
    ELSE TRUE

AllowReturn(s) ==
    IF failures[s] >= threshold
    THEN IF Since(lastError[s]) < timeout THEN FALSE ELSE TRUE
    ELSE TRUE

\* The value Allow writes to the state gauge.
AllowGauge(s) ==
    IF failures[s] >= threshold
    THEN IF Since(lastError[s]) < timeout THEN Open ELSE HalfOpen
    ELSE Closed

\* CircuitBreaker.Allow: the gauge is set on every path; the failures counter is
\* incremented on every path that returns true.
Allow(s) ==
    /\ AllowReturn(s) => cbFailuresTotal[s] < MaxCounter
    /\ cbStateGauge' = [cbStateGauge EXCEPT ![s] = AllowGauge(s)]
    /\ cbFailuresTotal' =
           IF AllowReturn(s)
           THEN [cbFailuresTotal EXCEPT ![s] = @ + 1]
           ELSE cbFailuresTotal
    /\ cbOp' = BreakerCall("Allow", s, AllowReturn(s))
    /\ UNCHANGED <<threshold, timeout, failures, lastError>>

\* failures after RecordSuccess.
SuccessFailuresDecrement(s) == IF failures[s] > 0 THEN failures[s] - 1 ELSE 0

SuccessFailures(s) == 0

\* CircuitBreaker.RecordSuccess
RecordSuccess(s) ==
    /\ cbFailuresTotal[s] < MaxCounter
    /\ failures' = [failures EXCEPT ![s] = SuccessFailures(s)]
    /\ cbStateGauge' = [cbStateGauge EXCEPT ![s] = Closed]
    /\ cbFailuresTotal' = [cbFailuresTotal EXCEPT ![s] = @ + 1]
    /\ cbOp' = BreakerCall("RecordSuccess", s, "")
    /\ UNCHANGED <<threshold, timeout, lastError>>

\* The gauge after RecordFailure, given the incremented failure count.
FailureGaugeOnlyAtThreshold(s, f) ==
    IF f = threshold THEN Open ELSE cbStateGauge[s]

FailureGauge(s, f) ==
    IF f >= threshold THEN Open ELSE cbStateGauge[s]

\* CircuitBreaker.RecordFailure
RecordFailure(s) ==
    /\ cbFailuresTotal[s] < MaxCounter
    /\ failures' = [failures EXCEPT ![s] = @ + 1]
    /\ lastError' = [lastError EXCEPT ![s] = now]
    /\ cbFailuresTotal' = [cbFailuresTotal EXCEPT ![s] = @ + 1]
    /\ cbStateGauge' = [cbStateGauge EXCEPT ![s] = FailureGauge(s, failures[s] + 1)]
    /\ cbOp' = BreakerCall("RecordFailure", s, "")
    /\ UNCHANGED <<threshold, timeout>>

\* GetState's return value.
GetStateReturnInclusive(s) ==
    IF failures[s] >= threshold
    THEN IF Since(lastError[s]) <= timeout THEN "open" ELSE "half-open"
    ELSE "closed"

GetStateReturn(s) ==
    IF failures[s] >= threshold
    THEN IF Since(lastError[s]) < timeout THEN "open" ELSE "half-open"
    ELSE "closed"

\* CircuitBreaker.GetState: reads only.
GetState(s) ==
    /\ cbOp' = BreakerCall("GetState", s, GetStateReturn(s))
    /\ UNCHANGED <<threshold, timeout, failures, lastError, cbStateGauge, cbFailuresTotal>>

\* CircuitBreaker.Reset: the failure count goes back to 0; neither metric is
\* touched.
Reset(s) ==
    /\ failures' = [failures EXCEPT ![s] = 0]
    /\ cbOp' = BreakerCall("Reset", s, "")
    /\ UNCHANGED <<threshold, timeout, lastError, cbStateGauge, cbFailuresTotal>>

\* ===================================================================== cache
\* Largest shard count the cache on its own is constructed with.
MaxShards == 2
\* The shard count NewDNSResolver constructs its cache with.
ResolverShards == 16
\* Largest ttl (in clock ticks) an entry is stored with; getMinTTL gives 0 for
\* an empty answer section.
MaxTTL == 1
\* cache.max_size, in the size units of estimateSize.
CacheMaxSize == 16
\* Caps on the Get calls made and on the eviction counter.
MaxGets == 1
MaxEvictions == 2

\* The keys the cache is exercised with, and their bytes ([]byte(key)).
Keys == {"", "a", "b"}
\* Keys that fall into one shard of two, for runs about a shard's size.
SizeKeys == {"b", "d", "f", "h"}
KeyBytes(k) == CASE k = "" -> <<>> [] k = "a" -> <<97>> [] k = "b" -> <<98>>
                 [] k = "d" -> <<100>> [] k = "f" -> <<102>> [] k = "h" -> <<104>>
                 [] k = "r" -> <<114>>

\* The goroutines calling Get: a caller of the cache on its own, and the
\* resolver's per-server sub-workers, one per hostname and server.
Readers == {"g1"}
SubWorkers == {h \o "@" \o s : h \in Hostnames, s \in Servers}
Getters == Readers \cup SubWorkers
\* The goroutines calling Set, Delete and Clear: callers of the cache on its
\* own (one beside the reader, or two at once), and the sub-workers.
Writers == {"w1"}
ConcurrentWriters == {"w1", "w2"}
Setters == ConcurrentWriters \cup SubWorkers
\* The keys two writers at once are exercised with.
WriterKeys == {"a", "b"}

\* cacheGets counts the Get calls that have returned. gaugePc: where each
\* caller of Set, Delete or Clear is once it has released the shard's lock:
\* in Clear's loop before shard `shard`, in getTotalStats' loop before shard
\* `shard` with `total` entries counted, or about to write `total` to the
\* cache_size gauge.
VARIABLES numShards, shards, cacheHits, cacheMisses, cacheEvictions, cacheSizeGauge,
          getPc, cacheGets, gaugePc, cacheOp

cvars == <<numShards, shards, cacheHits, cacheMisses, cacheEvictions, cacheSizeGauge,
           getPc, cacheGets, gaugePc, cacheOp>>

NoRefresh == [pc |-> "idle", shard |-> 0, total |-> 0]

\* A shard's (empty) entries map: a function whose domain is the keys present.
NoEntries == [k \in {} |-> 0]

NoResponse == [Server |-> "", Hostname |-> "", Addresses |-> <<>>]
NoEntry == [Response |-> NoResponse, Expires |-> ZeroTime, Size |-> 0]

\* The record of the last completed cache call: the shard's entries as the call
\* found them, what Get returned, and what Set evicted.
NoCacheOp ==
    [op |-> "none", key |-> "", preKeys |-> {}, preOldest |-> {},
     hit |-> FALSE, expires |-> ZeroTime, size |-> 0, over |-> FALSE, evicted |-> {}]

\* DNSResponse, the fields the cache reads. The responses stored under a key
\* differ in size from key to key: one address for "" and "b", none for "a".
AddressesOf(k) == IF k = "a" THEN <<>> ELSE <<"1.1.1.1">>
ResponsesFor(k) == {[Server |-> "s1", Hostname |-> k, Addresses |-> AddressesOf(k)]}
\* Responses of two sizes for one key: without and with an address.
SizedResponsesFor(k) ==
    {[Server |-> "s1", Hostname |-> k, Addresses |-> a] : a \in {<<>>, <<"1.1.1.1">>}}

\* NewShardedCache(maxSize, numShards)
CacheInit ==
    /\ numShards \in (1..MaxShards) \cup {ResolverShards}
    /\ shards = [i \in 0..(numShards - 1) |-> [entries |-> NoEntries, size |-> 0]]
    /\ cacheHits = 0
    /\ cacheMisses = 0
    /\ cacheEvictions = 0
    /\ cacheSizeGauge = 0
    /\ getPc = [p \in Getters |-> [pc |-> "idle", key |-> ""]]
    /\ cacheGets = 0
    /\ gaugePc = [p \in Setters |-> NoRefresh]
    /\ cacheOp = NoCacheOp

RECURSIVE HashBytes(_, _)
HashBytes(bytes, hash) ==
    IF bytes = <<>> THEN hash
    ELSE HashBytes(Tail(bytes), hash * 31 + Head(bytes))

\* ShardedCache.getShard: the index of the key's shard (the keys here are too
\* short for the hash to overflow).
getShard(key) ==
    LET hash == HashBytes(KeyBytes(key), 0)
        pos == IF hash < 0 THEN -hash ELSE hash
    IN pos % numShards

RECURSIVE SumLen(_)
SumLen(addrs) == IF addrs = <<>> THEN 0 ELSE Len(Head(addrs)) + SumLen(Tail(addrs))

\* estimateSize
estimateSize(response) ==
    Len(response.Server) + Len(response.Hostname) + SumLen(response.Addresses)

\* c.maxSize / int64(c.numShards)
ShardQuota == CacheMaxSize \div numShards

\* getTotalEntries, over a given shards array.
RECURSIVE CountEntries(_, _)
CountEntries(sh, i) ==
    IF i >= numShards THEN 0
    ELSE Cardinality(DOMAIN sh[i].entries) + CountEntries(sh, i + 1)
getTotalEntries(sh) == CountEntries(sh, 0)

\* A map without one key.
Without(entries, key) == [k \in (DOMAIN entries) \ {key} |-> entries[k]]
\* A map with one key set.
With(entries, key, e) ==
    [k \in (DOMAIN entries) \cup {key} |-> IF k = key THEN e ELSE entries[k]]

\* The orders in which a range over a map may visit its keys.
RECURSIVE Orders(_)
Orders(S) ==
    IF S = {} THEN {<<>>}
    ELSE UNION {{<<x>> \o rest : rest \in Orders(S \ {x})} : x \in S}

\* time.Now().After(entry.Expires)
Expired(entry) == now > entry.Expires

\* The keys of a map whose entries expire no later than any other's.
Oldest(entries) ==
    {k \in DOMAIN entries : \A j \in DOMAIN entries : entries[k].Expires <= entries[j].Expires}

CacheCall(name, key, hit, entry, size, over, evicted) ==
    [op |-> name, key |-> key,
     preKeys |-> DOMAIN shards[getShard(key)].entries,
     preOldest |-> Oldest(shards[getShard(key)].entries),
     hit |-> hit, expires |-> entry.Expires, size |-> size, over |-> over,
     evicted |-> evicted]

\* ShardedCache.Get, up to the release of the read lock: an absent key is a
\* miss still to be counted, an entry that is not past its expiry a hit, and
\* otherwise the read lock is given up and the caller goes for the write
\* lock.
GetBegin(p, key) ==
    /\ getPc[p].pc = "idle"
    /\ LET sh == shards[getShard(key)] IN
       IF key \notin DOMAIN sh.entries
       THEN /\ getPc' = [getPc EXCEPT ![p] = [pc |-> "missed", key |-> key]]
            /\ cacheOp' = CacheCall("GetUnlock", key, FALSE, NoEntry, 0, FALSE, {})
            /\ UNCHANGED <<cacheHits, cacheMisses, cacheGets>>
       ELSE IF Expired(sh.entries[key])
       THEN /\ getPc' = [getPc EXCEPT ![p] = [pc |-> "upgrade", key |-> key]]
            /\ cacheOp' = CacheCall("GetUnlock", key, FALSE, NoEntry, 0, FALSE, {})
            /\ UNCHANGED <<cacheHits, cacheMisses, cacheGets>>
       ELSE /\ cacheHits' = cacheHits + 1
            /\ cacheGets' = cacheGets + 1
            /\ cacheOp' = CacheCall("Get", key, TRUE, sh.entries[key], 0, FALSE, {})
            /\ UNCHANGED <<cacheMisses, getPc>>
    /\ UNCHANGED <<numShards, shards, cacheEvictions, cacheSizeGauge, gaugePc>>

\* ShardedCache.Get on an absent key, the read lock released: the miss is
\* counted and Get returns.
GetMiss(p) ==
    /\ getPc[p].pc = "missed"
    /\ cacheMisses' = cacheMisses + 1
    /\ cacheGets' = cacheGets + 1
    /\ getPc' = [getPc EXCEPT ![p] = [pc |-> "idle", key |-> ""]]
    /\ cacheOp' = CacheCall("Get", getPc[p].key, FALSE, NoEntry, 0, FALSE, {})
    /\ UNCHANGED <<numShards, shards, cacheHits, cacheEvictions, cacheSizeGauge, gaugePc>>

\* ShardedCache.Get under the write lock: the entry is looked up again and is
\* removed, and the miss counted, only if it is still there and still expired;
\* the call returns a miss either way.
GetUpgrade(p) ==
    /\ getPc[p].pc = "upgrade"
    /\ LET key == getPc[p].key
           i == getShard(key)
           sh == shards[i]
       IN /\ IF key \in DOMAIN sh.entries /\ Expired(sh.entries[key])
             THEN /\ shards' = [shards EXCEPT ![i] =
                         [entries |-> Without(sh.entries, key),
                          size |-> sh.size - sh.entries[key].Size]]
                  /\ cacheMisses' = cacheMisses + 1
                  /\ cacheOp' = CacheCall("Get", key, FALSE, NoEntry, 0, FALSE, {key})
             ELSE /\ cacheOp' = CacheCall("Get", key, FALSE, NoEntry, 0, FALSE, {})
                  /\ UNCHANGED <<shards, cacheMisses>>
    /\ getPc' = [getPc EXCEPT ![p] = [pc |-> "idle", key |-> ""]]
    /\ cacheGets' = cacheGets + 1
    /\ UNCHANGED <<numShards, cacheHits, cacheEvictions, cacheSizeGauge, gaugePc>>

\* The loop of evictOldest over the shard's map, visiting the keys in `order`:
\* the key it ends with ("" stands for none found).
RECURSIVE evictScan(_, _, _, _)
evictScan(entries, order, oldestKey, oldestTime) ==
    IF order = <<>> THEN oldestKey
    ELSE LET key == Head(order) IN
         IF oldestKey = "" \/ entries[key].Expires < oldestTime
         THEN evictScan(entries, Tail(order), key, entries[key].Expires)
         ELSE evictScan(entries, Tail(order), oldestKey, oldestTime)

\* ShardedCache.evictOldest: the shard after it, for one iteration order.
evictOldestKeepsSize(sh, order) ==
    LET oldestKey == evictScan(sh.entries, order, "", ZeroTime) IN
    IF oldestKey # ""
    THEN [entries |-> Without(sh.entries, oldestKey), size |-> sh.size]
    ELSE sh

evictOldest(sh, order) ==
    LET oldestKey == evictScan(sh.entries, order, "", ZeroTime) IN
    IF oldestKey # ""
    THEN [entries |-> Without(sh.entries, oldestKey),
          size |-> sh.size - sh.entries[oldestKey].Size]
    ELSE sh

\* ShardedCache.Set up to the release of the shard's write lock: one call of
\* evictOldest if the new entry does not fit the quota, then the old entry of
\* the key (if still there) is replaced. The caller goes on to count the
\* entries for the size gauge.
Set(p, key, response, ttl) ==
    /\ gaugePc[p].pc = "idle"
    /\ LET i == getShard(key)
           sh == shards[i]
           size == estimateSize(response)
           over == sh.size + size > ShardQuota
       IN \E order \in (IF over THEN Orders(DOMAIN sh.entries) ELSE {<<>>}) :
          LET kept == IF over THEN evictOldest(sh, order) ELSE sh
              evicted == (DOMAIN sh.entries) \ (DOMAIN kept.entries)
              entry == [Response |-> response, Expires |-> now + ttl, Size |-> size]
              oldSize == IF key \in DOMAIN kept.entries THEN kept.entries[key].Size ELSE 0
              new == [entries |-> With(kept.entries, key, entry),
                      size |-> kept.size - oldSize + size]
          IN /\ shards' = [shards EXCEPT ![i] = new]
             /\ cacheEvictions' = cacheEvictions + Cardinality(evicted)
             /\ cacheOp' = CacheCall("Set", key, FALSE, entry, size, over, evicted)
    /\ gaugePc' = [gaugePc EXCEPT ![p] = [NoRefresh EXCEPT !.pc = "count"]]
    /\ UNCHANGED <<numShards, cacheHits, cacheMisses, cacheSizeGauge, getPc, cacheGets>>

\* ShardedCache.Delete up to the release of the shard's write lock: if the key
\* was there, the caller goes on to count the entries for the size gauge.
Delete(p, key) ==
    /\ gaugePc[p].pc = "idle"
    /\ cacheEvictions < MaxEvictions
    /\ LET i == getShard(key)
           sh == shards[i]
       IN IF key \in DOMAIN sh.entries
          THEN /\ shards' = [shards EXCEPT ![i] =
                                [entries |-> Without(sh.entries, key),
                                 size |-> sh.size - sh.entries[key].Size]]
               /\ cacheEvictions' = cacheEvictions + 1
               /\ gaugePc' = [gaugePc EXCEPT ![p] = [NoRefresh EXCEPT !.pc = "count"]]
               /\ cacheOp' = CacheCall("Delete", key, FALSE, NoEntry, 0, FALSE, {key})
          ELSE /\ cacheOp' = CacheCall("Delete", key, FALSE, NoEntry, 0, FALSE, {})
               /\ UNCHANGED <<shards, cacheEvictions, gaugePc>>
    /\ UNCHANGED <<numShards, cacheHits, cacheMisses, cacheSizeGauge, getPc, cacheGets>>

\* One iteration of getTotalStats' loop, made for Set or Delete after the
\* unlock: the next shard's entries are counted under its read lock. After
\* the last shard the total is what getTotalEntries returns.
CountShard(p) ==
    /\ gaugePc[p].pc = "count"
    /\ LET i == gaugePc[p].shard
           total == gaugePc[p].total + Cardinality(DOMAIN shards[i].entries)
       IN gaugePc' = [gaugePc EXCEPT ![p] =
              IF i + 1 = numShards
              THEN [pc |-> "write", shard |-> 0, total |-> total]
              ELSE [pc |-> "count", shard |-> i + 1, total |-> total]]
    /\ UNCHANGED <<numShards, shards, cacheHits, cacheMisses, cacheEvictions,
                   cacheSizeGauge, getPc, cacheGets, cacheOp>>

\* metrics.CacheSize.Set, the last statement of Set, Delete and Clear.
GaugeSet(p) ==
    /\ gaugePc[p].pc = "write"
    /\ cacheSizeGauge' = gaugePc[p].total
    /\ gaugePc' = [gaugePc EXCEPT ![p] = NoRefresh]
    /\ UNCHANGED <<numShards, shards, cacheHits, cacheMisses, cacheEvictions,
                   getPc, cacheGets, cacheOp>>

\* One iteration of ShardedCache.Clear's loop: the next shard is emptied under
\* its write lock. After the last shard the gauge is to be set to 0.
Clear(p) ==
    /\ gaugePc[p].pc \in {"idle", "clear"}
    /\ LET i == gaugePc[p].shard IN
       /\ shards' = [shards EXCEPT ![i] = [entries |-> NoEntries, size |-> 0]]
       /\ gaugePc' = [gaugePc EXCEPT ![p] =
              IF i + 1 = numShards
              THEN [pc |-> "write", shard |-> 0, total |-> 0]
              ELSE [pc |-> "clear", shard |-> i + 1, total |-> 0]]
    /\ cacheOp' = [NoCacheOp EXCEPT !.op = "Clear"]
    /\ UNCHANGED <<numShards, cacheHits, cacheMisses, cacheEvictions, cacheSizeGauge,
                   getPc, cacheGets>>

\* ================================================================= event bus
\* Subscriptions made during a run.
MaxSubs == 2
\* Events published during a run.
MaxEvents == 2
\* Invocations of one subscription's unsubscribe handle.
MaxUnsubCalls == 2
\* subscribe's buffer when the hint is not positive.
DefaultBuffer == 64

\* The buffer hints subscribers pass: none (0), and one small enough to fill.
BufferHints == {0, 1}
\* The goroutines publishing (the workers of a cycle publish concurrently).
Publishers == {"w1", "w2"}
ChanIds == 1..MaxSubs

VARIABLES subs, chans, pub, nextEvent, received, unsub, busPanic, busOp

evars == <<subs, chans, pub, nextEvent, received, unsub, busPanic, busOp>>

IdlePublisher == [pc |-> "idle", event |-> 0, todo |-> {}, snap |-> {}, sent |-> {}, full |-> {}]
NoChan == [made |-> FALSE, cap |-> 0, buf |-> <<>>, closed |-> FALSE]
NoBusOp == [op |-> "none", by |-> "", ch |-> 0, event |-> 0, preLen |-> 0,
            snap |-> {}, sent |-> {}, full |-> {}]

\* newEventBus
BusInit ==
    /\ subs = {}
    /\ chans = [c \in ChanIds |-> NoChan]
    /\ pub = [p \in Publishers |-> IdlePublisher]
    /\ nextEvent = 1
    /\ received = [c \in ChanIds |-> <<>>]
    /\ unsub = [c \in ChanIds |-> [pc |-> "idle", calls |-> 0]]
    /\ busPanic = FALSE
    /\ busOp = NoBusOp

\* b.mu is read-locked by every publisher that is between its RLock and its
\* deferred RUnlock; Lock waits for all of them.
ReadLockIgnored == FALSE

ReadLocked == \E p \in Publishers : pub[p].pc = "sending"

\* make(chan ResolverEvent, buffer), after subscribe's default.
BufferFor(hint) == IF hint <= 0 THEN DefaultBuffer ELSE hint

\* eventBus.subscribe
Subscribe(hint) ==
    /\ ~busPanic
    /\ ~ReadLocked
    /\ \E c \in ChanIds :
          /\ ~chans[c].made
          /\ \A d \in ChanIds : d < c => chans[d].made
          /\ chans' = [chans EXCEPT ![c] =
                 [made |-> TRUE, cap |-> BufferFor(hint), buf |-> <<>>, closed |-> FALSE]]
          /\ subs' = subs \cup {c}
          /\ busOp' = [NoBusOp EXCEPT !.op = "subscribe", !.ch = c]
    /\ UNCHANGED <<pub, nextEvent, received, unsub, busPanic>>

\* The unsubscribe handle, under the write lock: delete(b.subs, ch).
UnsubscribeDelete(c) ==
    /\ ~busPanic
    /\ ~ReadLocked
    /\ chans[c].made
    /\ unsub[c].pc = "idle"
    /\ unsub[c].calls < MaxUnsubCalls
    /\ subs' = subs \ {c}
    /\ unsub' = [unsub EXCEPT ![c] = [pc |-> "close", calls |-> @.calls + 1]]
    /\ busOp' = [NoBusOp EXCEPT !.op = "delete", !.ch = c]
    /\ UNCHANGED <<chans, pub, nextEvent, received, busPanic>>

\* The unsubscribe handle, after the unlock: close(ch), which panics on a
\* channel that is closed already.
UnsubscribeClose(c) ==
    /\ ~busPanic
    /\ unsub[c].pc = "close"
    /\ unsub' = [unsub EXCEPT ![c].pc = "idle"]
    /\ IF chans[c].closed
       THEN busPanic' = TRUE /\ UNCHANGED chans
       ELSE chans' = [chans EXCEPT ![c].closed = TRUE] /\ UNCHANGED busPanic
    /\ busOp' = [NoBusOp EXCEPT !.op = "close", !.ch = c]
    /\ UNCHANGED <<subs, pub, nextEvent, received>>

\* eventBus.publish: RLock, and the range over b.subs begins.
PublishBegin(p) ==
    /\ ~busPanic
    /\ pub[p].pc = "idle"
    /\ nextEvent <= MaxEvents
    /\ pub' = [pub EXCEPT ![p] =
           [pc |-> "sending", event |-> nextEvent, todo |-> subs, snap |-> subs,
            sent |-> {}, full |-> {}]]
    /\ nextEvent' = nextEvent + 1
    /\ busOp' = [NoBusOp EXCEPT !.op = "begin", !.by = p, !.event = nextEvent]
    /\ UNCHANGED <<subs, chans, received, unsub, busPanic>>

\* Whether the select of publish can proceed on channel c: the send case when
\* the buffer has room, the default case always.
SendBlocking(c) == Len(chans[c].buf) < chans[c].cap

SendReady(c) == TRUE

\* The subscribers publish still visits after its attempt on c.
Rest(p, c) == pub[p].todo \ {c}

\* One iteration of publish's loop, on any subscriber not yet visited (a map
\* range): select { case ch <- event: default: }.
PublishSend(p) ==
    /\ ~busPanic
    /\ pub[p].pc = "sending"
    /\ \E c \in pub[p].todo :
          /\ SendReady(c)
          /\ IF chans[c].closed
             THEN /\ busPanic' = TRUE
                  /\ UNCHANGED chans
                  /\ pub' = [pub EXCEPT ![p].todo = Rest(p, c)]
             ELSE IF Len(chans[c].buf) < chans[c].cap
             THEN /\ chans' = [chans EXCEPT ![c].buf = Append(@, pub[p].event)]
                  /\ pub' = [pub EXCEPT ![p].todo = Rest(p, c), ![p].sent = @ \cup {c}]
                  /\ UNCHANGED busPanic
             ELSE /\ pub' = [pub EXCEPT ![p].todo = Rest(p, c), ![p].full = @ \cup {c}]
                  /\ UNCHANGED <<chans, busPanic>>
          /\ busOp' = [NoBusOp EXCEPT !.op = "send", !.by = p, !.ch = c,
                          !.event = pub[p].event, !.preLen = Len(chans[c].buf)]
    /\ UNCHANGED <<subs, nextEvent, received, unsub>>

\* publish returns: the loop is over, the deferred RUnlock runs.
PublishEnd(p) ==
    /\ ~busPanic
    /\ pub[p].pc = "sending"
    /\ pub[p].todo = {}
    /\ pub' = [pub EXCEPT ![p] = IdlePublisher]
    /\ busOp' = [NoBusOp EXCEPT !.op = "published", !.by = p, !.event = pub[p].event,
                    !.snap = pub[p].snap, !.sent = pub[p].sent, !.full = pub[p].full]
    /\ UNCHANGED <<subs, chans, nextEvent, received, unsub, busPanic>>

\* A subscriber takes the next event off its channel.
Receive(c) ==
    /\ ~busPanic
    /\ chans[c].buf # <<>>
    /\ chans' = [chans EXCEPT ![c].buf = Tail(@)]
    /\ received' = [received EXCEPT ![c] = Append(@, Head(chans[c].buf))]
    /\ busOp' = [NoBusOp EXCEPT !.op = "receive", !.ch = c]
    /\ UNCHANGED <<subs, pub, nextEvent, unsub, busPanic>>

\* ====================================================== hostname fan-out
\* Hostnames configured when the cycle's semaphore is exercised.
MaxWorkers == 11
\* The capacity of resolveAll's semaphore: make(chan struct{}, 10).
SemCapacity == 10

\* config.Hostnames: one or two names, or one name listed many times.
\* ("b" and "r" fall into the same shard of the resolver's cache).
HostnameLists ==
    {<<"b">>, <<"b", "a">>, <<"b", "r">>} \cup {[i \in 1..n |-> "b"] : n \in 3..MaxWorkers}
\* config.DNSServers
ServerLists == {<<"s1">>, <<"s1", "s2">>, <<"s1:53">>}

\* resolveAll as its semaphore sees it, the hostname workers counted by where
\* they are: hostCount is len(config.Hostnames), loopIndex the workers the
\* loop has started, queued those at `sem <- struct{}{}`, sem the slots taken
\* (the workers in their per-server fan-out), leaving those whose deferred
\* `<-sem` has run and whose deferred wg.Done has not, finished those whose
\* wg.Done has run, and cycleOver says that wg.Wait has returned.
VARIABLES hostCount, loopIndex, queued, sem, leaving, finished, cycleOver

fvars == <<hostCount, loopIndex, queued, sem, leaving, finished, cycleOver>>

FanOutInit ==
    /\ hostCount = Len(hostnames)
    /\ loopIndex = 0
    /\ queued = 0
    /\ sem = 0
    /\ leaving = 0
    /\ finished = 0
    /\ cycleOver = FALSE

\* One iteration of the loop over config.Hostnames: wg.Add(1) and go func.
SpawnWorker ==
    /\ loopIndex < hostCount
    /\ loopIndex' = loopIndex + 1
    /\ queued' = queued + 1
    /\ UNCHANGED <<hostCount, sem, leaving, finished, cycleOver>>

\* Whether a send on the semaphore channel proceeds: only while its buffer
\* has room.
SlotFreeAlways == TRUE

SlotFree == sem < SemCapacity

\* A worker's `sem <- struct{}{}`; its per-server fan-out follows.
AcquireSlot ==
    /\ queued > 0
    /\ SlotFree
    /\ queued' = queued - 1
    /\ sem' = sem + 1
    /\ UNCHANGED <<hostCount, loopIndex, leaving, finished, cycleOver>>

\* A worker is through its fan-out and consistency check and returns: the
\* function deferred last runs first, `<-sem` gives the slot back.
ReleaseKeepsSlot ==
    /\ sem > 0
    /\ leaving + finished < loopIndex - queued
    /\ leaving' = leaving + 1
    /\ UNCHANGED <<hostCount, loopIndex, queued, sem, finished, cycleOver>>

ReleaseSlot ==
    /\ sem > 0
    /\ sem' = sem - 1
    /\ leaving' = leaving + 1
    /\ UNCHANGED <<hostCount, loopIndex, queued, finished, cycleOver>>

\* The function deferred first runs last: wg.Done, and the worker's goroutine
\* is over.
WorkerDone ==
    /\ leaving > 0
    /\ leaving' = leaving - 1
    /\ finished' = finished + 1
    /\ UNCHANGED <<hostCount, loopIndex, queued, sem, cycleOver>>

\* wg.Wait returns once every started worker is done.
AwaitNothing ==
    /\ ~cycleOver
    /\ cycleOver' = TRUE
    /\ UNCHANGED <<hostCount, loopIndex, queued, sem, leaving, finished>>

AwaitWorkers ==
    /\ ~cycleOver
    /\ loopIndex = hostCount
    /\ finished = hostCount
    /\ cycleOver' = TRUE
    /\ UNCHANGED <<hostCount, loopIndex, queued, sem, leaving, finished>>

\* ============================================================ dns analysis
\* Responses in one list given to the consistency predicate.
MaxResponses == 3
\* Addresses in one response.
MaxAddresses == 2

\* The addresses servers answer with.
Addrs == {"1.1.1.1", "2.2.2.2"}
AddressLists == UNION {[1..n -> Addrs] : n \in 0..MaxAddresses}
\* The responses one hostname's sub-workers may collect.
CompareInputs ==
    UNION {[1..n -> {[Server |-> "s1", Hostname |-> "b", Addresses |-> l] :
                        l \in AddressLists}] : n \in 0..MaxResponses}

VARIABLES cmpIn, cmpOut

avars == <<cmpIn, cmpOut>>

\* CompareResponses: every later response has as many addresses as the first
\* and each of them is among the first's.
CompareResponses(responses) ==
    IF Len(responses) <= 1 THEN TRUE
    ELSE LET first == responses[1].Addresses
             firstAddrs == {first[k] : k \in 1..Len(first)}
         IN \A i \in 2..Len(responses) :
               /\ Len(responses[i].Addresses) = Len(first)
               /\ \A k \in 1..Len(responses[i].Addresses) :
                     responses[i].Addresses[k] \in firstAddrs

CompareInit ==
    /\ cmpIn \in CompareInputs
    /\ cmpOut = [done |-> FALSE, consistent |-> FALSE]

\* A call of CompareResponses on the list.
Compare ==
    /\ ~cmpOut.done
    /\ cmpOut' = [done |-> TRUE, consistent |-> CompareResponses(cmpIn)]
    /\ UNCHANGED cmpIn

\* ============================================================= client pool
\* Largest pool.MaxSize configured.
MaxPoolSize == 2
\* Clients the pool creates in a run.
MaxClients == 3

\* Server strings as the callers pass them, character by character: a bare
\* host, and the same host with its port.
PoolServers == {<<"h">>, <<"h", ":", "5", "3">>}
\* strings.Contains(server, ":")
HasPort(server) == \E k \in 1..Len(server) : server[k] = ":"
\* The key Get looks a server up under.
GetKey(server) == IF HasPort(server) THEN server ELSE server \o <<":", "5", "3">>
\* The keys the pool's map can come to hold.
PoolMapKeys == PoolServers \cup {GetKey(s) : s \in PoolServers}
ClientIds == 1..MaxClients
\* Values of a client's Timeout field.
ClientTimeouts == {1, 2}

\* poolMaxSize, poolTimeout: the pool's configuration. poolClients: the idle
\* clients per key, the last one on top. clientTimeout: the Timeout of each
\* client made so far. poolHeld: the clients handed out and not given back.
\* lastPut: per server string, the client the latest Put of that string
\* pushed, if no Get for the server has come since (0 if none). poolOp: the
\* last call.
VARIABLES poolMaxSize, poolTimeout, poolClients, clientTimeout, poolHeld, lastPut, poolOp

pvars == <<poolMaxSize, poolTimeout, poolClients, clientTimeout, poolHeld, lastPut, poolOp>>

NoPoolOp == [op |-> "none", server |-> <<>>, client |-> 0, label |-> "", preLen |-> 0,
             expected |-> 0]

\* NewClientPool(maxSize, timeout)
PoolInit ==
    /\ poolMaxSize \in 1..MaxPoolSize
    /\ poolTimeout \in ClientTimeouts
    /\ poolClients = [k \in PoolMapKeys |-> <<>>]
    /\ clientTimeout = [c \in {} |-> 0]
    /\ poolHeld = {}
    /\ lastPut = [s \in PoolServers |-> 0]
    /\ poolOp = NoPoolOp

\* ClientPool.Get: the top client of the server's stack if there is one, a
\* new client with the pool's timeout otherwise.
PoolClientGet(server) ==
    LET key == GetKey(server)
        stack == poolClients[key]
        new == Cardinality(DOMAIN clientTimeout) + 1
        forgotten == [s \in PoolServers |-> IF GetKey(s) = key THEN 0 ELSE lastPut[s]]
    IN IF Len(stack) > 0
       THEN /\ poolClients' = [poolClients EXCEPT ![key] = SubSeq(stack, 1, Len(stack) - 1)]
            /\ poolHeld' = poolHeld \cup {stack[Len(stack)]}
            /\ poolOp' = [op |-> "Get", server |-> server, client |-> stack[Len(stack)],
                          label |-> "pooled", preLen |-> Len(stack),
                          expected |-> lastPut[server]]
            /\ lastPut' = forgotten
            /\ UNCHANGED <<poolMaxSize, poolTimeout, clientTimeout>>
       ELSE /\ new \in ClientIds
            /\ clientTimeout' = [c \in 1..new |-> IF c = new THEN poolTimeout
                                                   ELSE clientTimeout[c]]
            /\ poolHeld' = poolHeld \cup {new}
            /\ poolOp' = [op |-> "Get", server |-> server, client |-> new,
                          label |-> "new", preLen |-> 0, expected |-> lastPut[server]]
            /\ lastPut' = forgotten
            /\ UNCHANGED <<poolMaxSize, poolTimeout, poolClients>>

\* The holder of a client changes its Timeout.
SetClientTimeout(c, t) ==
    /\ c \in poolHeld
    /\ clientTimeout[c] # t
    /\ clientTimeout' = [clientTimeout EXCEPT ![c] = t]
    /\ poolOp' = NoPoolOp
    /\ UNCHANGED <<poolMaxSize, poolTimeout, poolClients, poolHeld, lastPut>>

\* Whether Put keeps the client it is given.
PutKeepsUpToMaxSize(server) == Len(poolClients[server]) <= poolMaxSize

PutKeeps(server) == Len(poolClients[server]) < poolMaxSize

\* ClientPool.Put: the client's timeout is reset; it is pushed on the stack
\* of the server as given unless the stack holds MaxSize clients.
PoolClientPut(server, c) ==
    /\ c \in poolHeld
    /\ poolHeld' = poolHeld \ {c}
    /\ clientTimeout' = [clientTimeout EXCEPT ![c] = poolTimeout]
    /\ IF PutKeeps(server)
       THEN /\ poolClients' = [poolClients EXCEPT ![server] = Append(@, c)]
            /\ lastPut' = [lastPut EXCEPT ![server] = c]
       ELSE UNCHANGED <<poolClients, lastPut>>
    /\ poolOp' = [op |-> "Put", server |-> server, client |-> c,
                  label |-> IF PutKeeps(server) THEN "returned" ELSE "dropped",
                  preLen |-> Len(poolClients[server]), expected |-> 0]
    /\ UNCHANGED <<poolMaxSize, poolTimeout>>

\* ============================================================ server stats
\* The resolutions of a cycle as the per-server statistics see them, one per
\* hostname and server, and how a resolution ends: served from the cache,
\* refused by the open circuit, a transport error, a non-success rcode, or a
\* success from the network.
StatWorkers == {<<h, s>> : h \in Hostnames, s \in Servers}
ResolutionKinds == {"hit", "open", "error", "rcode", "ok"}
\* The two words of a string in memory: the pointer to its bytes and its
\* length.
StringWords == {"data", "len"}

\* stats: r.stats.Stats, per server; LastError is held as the two words of
\* the string. sw: the sub-workers as writers of the stats: where each is,
\* how its resolution ended, the statements on the stats it has still to
\* make, the value it has read for the increment it is making, and the words
\* it has written of the string it is storing.
VARIABLES stats, sw

tvars == <<stats, sw>>

NoString == [data |-> "", len |-> 0]

\* NewDNSResolver: a zero ServerStats per configured server.
StatsInit ==
    /\ stats = [s \in Servers |-> [Total |-> 0, Failures |-> 0, LastError |-> NoString]]
    /\ sw = [id \in StatWorkers |-> [pc |-> "idle", kind |-> "", todo |-> <<>>, reg |-> 0,
                                      half |-> {}]]

\* The sub-workers of the configured hostnames and servers.
StatConfigured ==
    {<<hostnames[i], servers[j]>> : i \in 1..Len(hostnames), j \in 1..Len(servers)}

\* What err.Error() is for the error resolveWithServer returned.
StatError(kind, s) ==
    CASE kind = "open" -> "circuit breaker open for " \o s
      [] kind = "error" -> "DNS query failed: i/o timeout"
      [] kind = "rcode" -> "DNS query returned error code: SERVFAIL"
      [] OTHER -> ""

\* `Total++`, and `Failures++` followed by `LastError = text`.
CountsSuccess == <<[field |-> "Total", text |-> ""]>>
CountsFailure(text) ==
    <<[field |-> "Failures", text |-> ""], [field |-> "LastError", text |-> text]>>

\* The statements a resolution makes on its server's ServerStats, in order:
\* those of resolveWithServer (Failures++ and LastError, set to the text of
\* the transport error or to the rcode's name, on a query that failed;
\* Total++ on a success from the network), then those of the sub-worker in
\* resolveAll (Failures++ and LastError, set to the text of the error
\* returned, on an error; Total++ otherwise).
StatWrites(kind, s) ==
    (CASE kind = "error" -> CountsFailure("i/o timeout")
       [] kind = "rcode" -> CountsFailure("SERVFAIL")
       [] kind = "ok" -> CountsSuccess
       [] OTHER -> <<>>)
    \o (IF kind \in {"hit", "ok"} THEN CountsSuccess
        ELSE CountsFailure(StatError(kind, s)))

\* A sub-worker's resolution ends in one of the ways resolveWithServer can.
StatResolve(id, kind) ==
    /\ id \in StatConfigured
    /\ sw[id].pc = "idle"
    /\ sw' = [sw EXCEPT ![id] = [pc |-> "ready", kind |-> kind,
                                 todo |-> StatWrites(kind, id[2]), reg |-> 0, half |-> {}]]
    /\ UNCHANGED stats

\* The read of `r.stats.Stats[s].Total++` or `.Failures++`: the map is read
\* and written without a lock, so the increment is a read and a later write.
StatLoad(id) ==
    /\ sw[id].pc = "ready"
    /\ sw[id].todo # <<>>
    /\ Head(sw[id].todo).field # "LastError"
    /\ sw' = [sw EXCEPT ![id].pc = "loaded",
                        ![id].reg = IF Head(sw[id].todo).field = "Total"
                                    THEN stats[id[2]].Total ELSE stats[id[2]].Failures]
    /\ UNCHANGED stats

\* The write of the increment.
StatStore(id) ==
    /\ sw[id].pc = "loaded"
    /\ stats' = [stats EXCEPT ![id[2]] =
                   IF Head(sw[id].todo).field = "Total"
                   THEN [@ EXCEPT !.Total = sw[id].reg + 1]
                   ELSE [@ EXCEPT !.Failures = sw[id].reg + 1]]
    /\ sw' = [sw EXCEPT ![id].pc = "ready", ![id].todo = Tail(@), ![id].reg = 0]

\* `r.stats.Stats[s].LastError = ...`, the statement after `Failures++`: the
\* string is stored without a lock, one word at a time, in the order the
\* build chose.
StatSetError(id, word) ==
    /\ sw[id].pc = "ready"
    /\ sw[id].todo # <<>>
    /\ Head(sw[id].todo).field = "LastError"
    /\ word \in StringWords \ sw[id].half
    /\ LET text == Head(sw[id].todo).text IN
       stats' = [stats EXCEPT ![id[2]].LastError =
                    IF word = "data" THEN [@ EXCEPT !.data = text]
                    ELSE [@ EXCEPT !.len = Len(text)]]
    /\ sw' = [sw EXCEPT ![id] =
                IF sw[id].half \cup {word} = StringWords
                THEN [@ EXCEPT !.todo = Tail(@), !.half = {}]
                ELSE [@ EXCEPT !.half = @ \cup {word}]]

\* The sub-worker returns (serverWg.Done).
StatDone(id) ==
    /\ sw[id].pc = "ready"
    /\ sw[id].todo = <<>>
    /\ sw' = [sw EXCEPT ![id].pc = "done"]
    /\ UNCHANGED stats

\* ================================================================ resolver
\* NewClientPool(100, ...): the idle clients the pool keeps per server.
PoolMaxSize == 100

\* The key ClientPool.Get looks a server up under: host:53 for a bare host.
WithPort(server) == IF server \in BareServers THEN server \o ":53" ELSE server
\* The keys of the pool's map: a server as configured, and with the port.
PoolKeys == Servers \cup {WithPort(s) : s \in Servers}
\* What a query sent to a server comes back with: a transport error, a
\* response with a non-success rcode, or a success with its A records and
\* their least TTL (none and 0 for an empty answer section).
Outcomes ==
    {[kind |-> "error", rcode |-> "", addrs |-> <<>>, ttl |-> 0],
     [kind |-> "rcode", rcode |-> "SERVFAIL", addrs |-> <<>>, ttl |-> 0],
     [kind |-> "ok", rcode |-> "NOERROR", addrs |-> <<>>, ttl |-> 0],
     [kind |-> "ok", rcode |-> "NOERROR", addrs |-> <<"1.1.1.1">>, ttl |-> MaxTTL],
     [kind |-> "ok", rcode |-> "NOERROR", addrs |-> <<"1.1.1.1", "2.2.2.2">>, ttl |-> MaxTTL],
     [kind |-> "ok", rcode |-> "NOERROR", addrs |-> <<"1.1.1.1", "1.1.1.1">>, ttl |-> MaxTTL]}

\* cycle: where resolveAll is. w: the hostname workers (by position in
\* config.Hostnames), each with the responses it collected, the values it
\* has set its hostname's consistency gauge to, and the Inconsistent events
\* it has published. q: the per-server sub-workers. poolIdle: the pool's idle
\* clients per key. published: the events published so far, by type.
\* cycleDurations: the observations made on the cycle-duration histogram.
\* observer: a subscriber of the bus that reads the cache for the hostname of
\* a ResolveSuccess{source=query} event it has received.
VARIABLES cycle, w, q, poolIdle, published, cycleDurations, observer

rvars == <<hostnames, servers, cycle, w, q, poolIdle, published, cycleDurations, observer>>

NoEvent == [Type |-> "", Hostname |-> "", Server |-> "", Error |-> "",
            Addresses |-> <<>>, Source |-> ""]
\* A sub-worker before its goroutine exists. trace lists the calls it has made
\* on the cache, the breaker, the pool, the network and the metrics; events
\* the events it has published; durations counts its observations on the
\* query-duration histogram; cause the text of the error ExchangeContext
\* returned, or the name of the non-success rcode; setNo the rank of its
\* cache.Set among those made into the same shard; ret and err what
\* resolveWithServer returned.
IdleSubWorker ==
    [pc |-> "idle", Hostname |-> "", Server |-> "", trace |-> <<>>, events |-> <<>>,
     hit |-> FALSE, allow |-> "", outcome |-> "", response |-> NoResponse, ttl |-> 0,
     expires |-> ZeroTime, setNo |-> 0, durations |-> 0, cause |-> "",
     ret |-> NoResponse, err |-> ""]

\* The subscriber before it has received an event: by is the sub-worker whose
\* event it received, hit and response what its Get returned, and inTime and
\* latest say whether, when the Get took the shard's lock, the entry of that
\* sub-worker was not past its expiry and no cache.Set into the shard had
\* come after the sub-worker's.
IdleObserver ==
    [pc |-> "idle", by |-> "", hit |-> FALSE, response |-> NoResponse,
     inTime |-> FALSE, latest |-> FALSE]

SubWorker(h, s) == h \o "@" \o s
\* The subscriber as a caller of the cache.
Subscriber == "g1"
ServerSet == {servers[k] : k \in 1..Len(servers)}
Count(seq, x) == Cardinality({k \in 1..Len(seq) : seq[k] = x})

\* NewDNSResolver, for a configuration.
ResolverInit ==
    /\ hostnames \in HostnameLists
    /\ servers \in ServerLists
    /\ cycle = "idle"
    /\ w = [i \in 1..Len(hostnames) |-> [pc |-> "idle", responses |-> <<>>, checked |-> FALSE,
                                             gauge |-> <<>>, inconsistent |-> 0]]
    /\ q = [id \in SubWorkers |-> IdleSubWorker]
    /\ poolIdle = [k \in PoolKeys |-> 0]
    /\ published = [cycle_start |-> 0, cycle_complete |-> 0, resolve_success |-> 0,
                    resolve_failure |-> 0, inconsistent |-> 0]
    /\ cycleDurations = 0
    /\ observer = IdleObserver

\* emitEvent: the event is published on the bus.
emitEventTwice(event) == published' = [published EXCEPT ![event.Type] = @ + 2]

emitEvent(event) == published' = [published EXCEPT ![event.Type] = @ + 1]

\* resolveAll up to its loop: CycleStart is published.
CycleBegin ==
    /\ cycle = "idle"
    /\ cycle' = "running"
    /\ emitEvent([NoEvent EXCEPT !.Type = "cycle_start"])
    /\ UNCHANGED <<cycleDurations, hostnames, servers, w, q, poolIdle, observer>>

\* The loop starts the next hostname's worker.
HostSpawn ==
    /\ cycle = "running"
    /\ SpawnWorker
    /\ w' = [w EXCEPT ![loopIndex + 1].pc = "queued"]
    /\ UNCHANGED <<cycleDurations, hostnames, servers, cycle, q, poolIdle, published, observer>>

\* A worker gets its semaphore slot and starts one sub-worker per server.
HostAcquire(i) ==
    /\ w[i].pc = "queued"
    /\ AcquireSlot
    /\ w' = [w EXCEPT ![i].pc = "fanout"]
    /\ q' = [id \in SubWorkers |->
               IF id \in {SubWorker(hostnames[i], s) : s \in ServerSet}
               THEN [IdleSubWorker EXCEPT !.pc = "start", !.Hostname = hostnames[i],
                        !.Server = CHOOSE s \in ServerSet : id = SubWorker(hostnames[i], s)]
               ELSE q[id]]
    /\ UNCHANGED <<cycleDurations, hostnames, servers, cycle, poolIdle, published, observer>>

\* Whether the worker runs the consistency predicate on what it collected.
ChecksAnyResponse(responses) == Len(responses) > 0

ChecksConsistency(responses) == Len(responses) > 1

\* boolToFloat64
boolToFloat64(b) == IF b THEN 1 ELSE 0

\* Whether the worker publishes Inconsistent for what it collected.
PublishesInconsistent(responses) ==
    ChecksConsistency(responses) /\ ~CompareResponses(responses)

\* A worker that does not wait for its sub-workers.
serverWgNoWait(i) == i \in 1..Len(hostnames)

\* serverWg.Wait() returns: every sub-worker of the hostname has called
\* serverWg.Done.
serverWgWait(i) == \A s \in ServerSet : q[SubWorker(hostnames[i], s)].pc = "done"

\* serverWg.Wait has returned: the worker checks the responses it collected
\* and sets the hostname's consistency gauge.
HostCheck(i) ==
    /\ w[i].pc = "fanout"
    /\ serverWgWait(i)
    /\ w' = [w EXCEPT ![i].pc = IF PublishesInconsistent(w[i].responses)
                                THEN "inconsistent" ELSE "returning",
                      ![i].checked = ChecksConsistency(w[i].responses),
                      ![i].gauge = IF ChecksConsistency(w[i].responses)
                                   THEN Append(@, boolToFloat64(CompareResponses(w[i].responses)))
                                   ELSE @]
    /\ UNCHANGED <<cycleDurations, hostnames, servers, cycle, q, poolIdle, published, observer>>

\* The responses disagree: Inconsistent is published.
HostEmit(i) ==
    /\ w[i].pc = "inconsistent"
    /\ w' = [w EXCEPT ![i].pc = "returning", ![i].inconsistent = @ + 1]
    /\ emitEvent([NoEvent EXCEPT !.Type = "inconsistent", !.Hostname = hostnames[i]])
    /\ UNCHANGED <<cycleDurations, hostnames, servers, cycle, q, poolIdle, observer>>

\* The worker's function returns: its deferred `<-sem` runs.
HostRelease(i) ==
    /\ w[i].pc = "returning"
    /\ ReleaseSlot
    /\ w' = [w EXCEPT ![i].pc = "released"]
    /\ UNCHANGED <<cycleDurations, hostnames, servers, cycle, q, poolIdle, published, observer>>

\* Then its deferred wg.Done.
HostDone(i) ==
    /\ w[i].pc = "released"
    /\ WorkerDone
    /\ w' = [w EXCEPT ![i].pc = "done"]
    /\ UNCHANGED <<cycleDurations, hostnames, servers, cycle, q, poolIdle, published, observer>>

\* wg.Wait has returned: the cycle's duration is observed, CycleComplete is
\* published and resolveAll returns.
CycleEnd ==
    /\ cycle = "running"
    /\ AwaitWorkers
    /\ cycle' = "complete"
    /\ cycleDurations' = cycleDurations + 1
    /\ emitEvent([NoEvent EXCEPT !.Type = "cycle_complete"])
    /\ UNCHANGED <<hostnames, servers, w, q, poolIdle, observer>>

\* ------------------------------------------------- resolveWithServer
\* What the cache holds for a key: nothing, an entry past its expiry, or an
\* entry Get returns.
Lookup(key) ==
    LET sh == shards[getShard(key)] IN
    IF key \notin DOMAIN sh.entries THEN "absent"
    ELSE IF Expired(sh.entries[key]) THEN "expired" ELSE "live"

\* The sub-worker record after more calls, and after publishing an event.
Called(r, calls) == [r EXCEPT !.trace = @ \o calls]
Published(r, event, pc) == [r EXCEPT !.events = Append(@, event), !.pc = pc]
\* The sub-worker as a writer of its server's stats, and its stats
\* statements as they are before the next is begun.
StatId(id) == <<q[id].Hostname, q[id].Server>>
StatsWritten(id) == sw[StatId(id)].todo = <<>>
StatBegin(id, writes) ==
    sw' = [sw EXCEPT ![StatId(id)] = [@ EXCEPT !.pc = "ready", !.todo = writes]]
\* The cache.Sets sub-workers have made so far into a shard.
SetsInShard(i) ==
    Cardinality({id \in SubWorkers : q[id].setNo > 0 /\ getShard(q[id].Hostname) = i})

\* The events of the pipeline.
HitEventNoAddresses(r) ==
    [NoEvent EXCEPT !.Type = "resolve_success", !.Hostname = r.Hostname,
        !.Server = r.Server, !.Source = "cache"]

HitEvent(r) ==
    [NoEvent EXCEPT !.Type = "resolve_success", !.Hostname = r.Hostname,
        !.Server = r.Server, !.Addresses = r.ret.Addresses, !.Source = "cache"]

OpenEventAsQueryError(r) ==
    [NoEvent EXCEPT !.Type = "resolve_failure", !.Hostname = r.Hostname,
        !.Server = r.Server, !.Error = "circuit breaker open", !.Source = "query_error"]

OpenEvent(r) ==
    [NoEvent EXCEPT !.Type = "resolve_failure", !.Hostname = r.Hostname,
        !.Server = r.Server, !.Error = "circuit breaker open", !.Source = "circuit_breaker"]

FailureEventAlwaysQueryError(r) ==
    [NoEvent EXCEPT !.Type = "resolve_failure", !.Hostname = r.Hostname,
        !.Server = r.Server, !.Error = r.cause, !.Source = "query_error"]

FailureEvent(r) ==
    [NoEvent EXCEPT !.Type = "resolve_failure", !.Hostname = r.Hostname,
        !.Server = r.Server, !.Error = r.cause,
        !.Source = IF r.outcome = "error" THEN "query_error" ELSE "rcode"]

SuccessEvent(r) ==
    [NoEvent EXCEPT !.Type = "resolve_success", !.Hostname = r.Hostname,
        !.Server = r.Server, !.Addresses = r.response.Addresses, !.Source = "query"]

\* ClientPool.Get: a bare host is looked up as host:53; an idle client is
\* taken if there is one, a new one made otherwise.
PoolGet(server) ==
    LET key == WithPort(server) IN
    poolIdle' = IF poolIdle[key] > 0 THEN [poolIdle EXCEPT ![key] = @ - 1] ELSE poolIdle

\* ClientPool.Put: the client is kept under the server as given, unless the
\* pool holds MaxSize for it already.
PoolPut(server) ==
    poolIdle' = IF poolIdle[server] < PoolMaxSize
                THEN [poolIdle EXCEPT ![server] = @ + 1] ELSE poolIdle

\* r.cache.Get(hostname), up to the release of the read lock.
QGet(id) ==
    /\ q[id].pc = "start"
    /\ GetBegin(id, q[id].Hostname)
    /\ LET key == q[id].Hostname
           look == Lookup(key)
       IN q' = [q EXCEPT ![id] =
             CASE look = "live" ->
                    [Called(@, <<"cache.Get", "metrics.cache_hit">>) EXCEPT
                        !.pc = "hit", !.hit = TRUE,
                        !.ret = shards[getShard(key)].entries[key].Response]
               [] look = "absent" -> [@ EXCEPT !.pc = "missed"]
               [] look = "expired" -> [@ EXCEPT !.pc = "upgrade"]]
    /\ UNCHANGED <<cycleDurations, hostnames, servers, cycle, w, poolIdle, published,
                   observer, bvars, fvars, tvars>>

\* r.cache.Get(hostname) on an absent key, the read lock released: the miss
\* is counted and Get returns.
QGetMiss(id) ==
    /\ q[id].pc = "missed"
    /\ GetMiss(id)
    /\ q' = [q EXCEPT ![id] =
                [Called(@, <<"cache.Get", "metrics.cache_miss">>) EXCEPT !.pc = "miss"]]
    /\ UNCHANGED <<cycleDurations, hostnames, servers, cycle, w, poolIdle, published,
                   observer, bvars, fvars, tvars>>

\* r.cache.Get(hostname) on an expired entry, under the write lock: a miss.
QGetUpgrade(id) ==
    /\ q[id].pc = "upgrade"
    /\ GetUpgrade(id)
    /\ q' = [q EXCEPT ![id] =
                [Called(@, <<"cache.Get", "metrics.cache_miss">>) EXCEPT !.pc = "miss"]]
    /\ UNCHANGED <<cycleDurations, hostnames, servers, cycle, w, poolIdle, published,
                   observer, bvars, fvars, tvars>>

\* Cache hit: ResolveSuccess{source=cache} is published, the entry returned.
QHit(id) ==
    /\ q[id].pc = "hit"
    /\ q' = [q EXCEPT ![id] = Published(@, HitEvent(@), "returned")]
    /\ emitEvent(HitEvent(q[id]))
    /\ UNCHANGED <<cycleDurations, hostnames, servers, cycle, w, poolIdle, observer,
                   bvars, cvars, fvars, tvars>>

\* r.breakers[server].Allow()
QAllow(id) ==
    /\ q[id].pc = "miss"
    /\ Allow(q[id].Server)
    /\ q' = [q EXCEPT ![id] =
                [Called(@, <<"breaker.Allow">>) EXCEPT
                    !.allow = IF AllowReturn(q[id].Server) THEN "true" ELSE "false",
                    !.pc = IF AllowReturn(q[id].Server) THEN "allowed" ELSE "open"]]
    /\ UNCHANGED <<cycleDurations, hostnames, servers, cycle, w, poolIdle, published,
                   observer, cvars, fvars, tvars>>

\* Allow returned false: the failure is counted and published, and
\* resolveWithServer returns the circuit-open error.
QOpen(id) ==
    /\ q[id].pc = "open"
    /\ LET r == [Called(q[id], <<"metrics.failure:circuit_breaker">>) EXCEPT
                    !.err = "circuit breaker open for " \o q[id].Server]
       IN /\ q' = [q EXCEPT ![id] = Published(r, OpenEvent(r), "returned")]
          /\ emitEvent(OpenEvent(r))
          /\ StatBegin(id, CountsFailure(r.err))
    /\ UNCHANGED <<cycleDurations, hostnames, servers, cycle, w, poolIdle, observer,
                   bvars, cvars, fvars, stats>>

\* A client is taken from the pool (its release deferred), the attempt is
\* counted and the query is sent.
QSend(id) ==
    /\ q[id].pc = "allowed"
    /\ PoolGet(q[id].Server)
    /\ q' = [q EXCEPT ![id] =
                [Called(@, <<"pool.Get", "metrics.total", "send">>) EXCEPT !.pc = "inflight"]]
    /\ UNCHANGED <<cycleDurations, hostnames, servers, cycle, w, published, observer,
                   bvars, cvars, fvars, tvars>>

\* ExchangeContext returns: the query's duration is observed when a response
\* came back, whatever its rcode; on a transport error or a non-success rcode
\* the breaker records a failure, on success it records a success and the
\* response is decoded. The statements on the server's stats come next.
QRecv(id, o) ==
    /\ q[id].pc = "inflight"
    /\ IF o.kind = "ok"
       THEN /\ RecordSuccess(q[id].Server)
            /\ q' = [q EXCEPT ![id] =
                   [Called(@, <<"breaker.RecordSuccess">>) EXCEPT
                       !.pc = "decoded", !.outcome = o.kind, !.ttl = o.ttl,
                       !.durations = @ + 1,
                       !.response = [Server |-> q[id].Server, Hostname |-> q[id].Hostname,
                                     Addresses |-> o.addrs]]]
            /\ StatBegin(id, CountsSuccess)
       ELSE /\ RecordFailure(q[id].Server)
            /\ q' = [q EXCEPT ![id] =
                   [Called(@, <<"breaker.RecordFailure">>) EXCEPT
                       !.pc = "failed", !.outcome = o.kind,
                       !.durations = IF o.kind = "rcode" THEN @ + 1 ELSE @,
                       !.cause = IF o.kind = "error" THEN "i/o timeout" ELSE o.rcode]]
            /\ StatBegin(id, CountsFailure(IF o.kind = "error" THEN "i/o timeout" ELSE o.rcode))
    /\ UNCHANGED <<cycleDurations, hostnames, servers, cycle, w, poolIdle, published,
                   observer, cvars, fvars, stats>>

\* A statement of the sub-worker on r.stats.Stats[server], in
\* resolveWithServer or after it in resolveAll.
QStatLoad(id) ==
    /\ q[id].pc \in {"failed", "decoded", "returned", "logged"}
    /\ StatLoad(StatId(id))
    /\ UNCHANGED <<rvars, bvars, cvars, fvars>>

QStatStore(id) ==
    /\ q[id].pc \in {"failed", "decoded", "returned", "logged"}
    /\ StatStore(StatId(id))
    /\ UNCHANGED <<rvars, bvars, cvars, fvars>>

QStatSetError(id, word) ==
    /\ q[id].pc \in {"failed", "returned"}
    /\ StatSetError(StatId(id), word)
    /\ UNCHANGED <<rvars, bvars, cvars, fvars>>

\* r.getClient returns an error (the field is the pool's Get unless a caller
\* of the package has put another function there): the failure is published
\* with source client_pool and resolveWithServer returns before the release
\* of a client is deferred.
ClientPoolEvent(r) ==
    [NoEvent EXCEPT !.Type = "resolve_failure", !.Hostname = r.Hostname,
        !.Server = r.Server, !.Error = "pool unavailable", !.Source = "client_pool"]

QGetClientFails(id) ==
    /\ q[id].pc = "allowed"
    /\ LET r == [Called(q[id], <<"getClient:error">>) EXCEPT
                    !.outcome = "client_pool",
                    !.err = "failed to get client from pool: pool unavailable"]
       IN /\ q' = [q EXCEPT ![id] = Published(r, ClientPoolEvent(r), "returned")]
          /\ emitEvent(ClientPoolEvent(r))
          /\ StatBegin(id, CountsFailure(r.err))
    /\ UNCHANGED <<cycleDurations, hostnames, servers, cycle, w, poolIdle, observer,
                   bvars, cvars, fvars, stats>>

\* The error resolveWithServer returns for a query that failed:
\* fmt.Errorf("DNS query failed: %w", err), or
\* fmt.Errorf("DNS query returned error code: %s", rcode).
QueryError(r) ==
    (IF r.outcome = "error" THEN "DNS query failed: "
     ELSE "DNS query returned error code: ") \o r.cause

\* The increments of the success and failure counters for a query that came
\* back as `kind`.
CounterCallsRcodeAsBoth(kind, cause) ==
    IF kind = "error" THEN <<"metrics.failure:query_error">>
    ELSE IF kind = "rcode" THEN <<"metrics.failure:" \o cause, "metrics.success">>
    ELSE <<"metrics.success">>

CounterCalls(kind, cause) ==
    IF kind = "ok" THEN <<"metrics.success">>
    ELSE <<"metrics.failure:" \o (IF kind = "error" THEN "query_error" ELSE cause)>>

\* The stats written, the failure is counted under its label and published.
QFail(id) ==
    /\ q[id].pc = "failed"
    /\ StatsWritten(id)
    /\ LET r == [Called(q[id], CounterCalls(q[id].outcome, q[id].cause)) EXCEPT
                    !.err = QueryError(q[id])]
       IN /\ q' = [q EXCEPT ![id] = Published(r, FailureEvent(r), "emitted")]
          /\ emitEvent(FailureEvent(r))
    /\ UNCHANGED <<cycleDurations, hostnames, servers, cycle, w, poolIdle, observer,
                   bvars, cvars, fvars, tvars>>

\* The stats written, the success is counted; r.cache.Set(hostname,
\* dnsResponse, ttl seconds) up to the release of the shard's lock.
QSetSkipped(id) ==
    /\ q[id].pc = "decoded"
    /\ StatsWritten(id)
    /\ q' = [q EXCEPT ![id] =
                [Called(@, CounterCalls(q[id].outcome, q[id].cause)) EXCEPT !.pc = "stored"]]
    /\ UNCHANGED <<cycleDurations, hostnames, servers, cycle, w, poolIdle, published,
                   observer, bvars, cvars, fvars, tvars>>

QSet(id) ==
    /\ q[id].pc = "decoded"
    /\ StatsWritten(id)
    /\ Set(id, q[id].Hostname, q[id].response, q[id].ttl)
    /\ q' = [q EXCEPT ![id] =
                [Called(@, CounterCalls(q[id].outcome, q[id].cause) \o <<"cache.Set">>) EXCEPT
                    !.pc = "storing", !.expires = now + q[id].ttl,
                    !.setNo = SetsInShard(getShard(q[id].Hostname)) + 1]]
    /\ UNCHANGED <<cycleDurations, hostnames, servers, cycle, w, poolIdle, published,
                   observer, bvars, fvars, tvars>>

\* Still in r.cache.Set, the shard's lock released: the entries of the next
\* shard are counted.
QCount(id) ==
    /\ q[id].pc = "storing"
    /\ CountShard(id)
    /\ UNCHANGED <<rvars, bvars, fvars, tvars>>

\* r.cache.Set writes the size gauge and returns.
QGauge(id) ==
    /\ q[id].pc = "storing"
    /\ GaugeSet(id)
    /\ q' = [q EXCEPT ![id].pc = "stored"]
    /\ UNCHANGED <<cycleDurations, hostnames, servers, cycle, w, poolIdle, published,
                   observer, bvars, fvars, tvars>>

\* ResolveSuccess{source=query} is published and the response is what
\* resolveWithServer returns.
QSucceed(id) ==
    /\ q[id].pc = "stored"
    /\ LET r == [q[id] EXCEPT !.ret = q[id].response]
       IN /\ q' = [q EXCEPT ![id] = Published(r, SuccessEvent(r), "emitted")]
          /\ emitEvent(SuccessEvent(r))
    /\ UNCHANGED <<cycleDurations, hostnames, servers, cycle, w, poolIdle, observer,
                   bvars, cvars, fvars, tvars>>

\* resolveWithServer returns after a query: the deferred putClient runs. An
\* error returned is logged by the sub-worker, whose statements on the stats
\* come next.
QPutSkipped(id) ==
    /\ q[id].pc = "emitted"
    /\ q' = [q EXCEPT ![id].pc = "returned"]
    /\ IF q[id].err # "" THEN StatBegin(id, CountsFailure(q[id].err)) ELSE UNCHANGED sw
    /\ UNCHANGED <<cycleDurations, hostnames, servers, cycle, w, poolIdle, published,
                   observer, bvars, cvars, fvars, stats>>

QPut(id) ==
    /\ q[id].pc = "emitted"
    /\ PoolPut(q[id].Server)
    /\ q' = [q EXCEPT ![id] = [Called(@, <<"pool.Put">>) EXCEPT !.pc = "returned"]]
    /\ IF q[id].err # "" THEN StatBegin(id, CountsFailure(q[id].err)) ELSE UNCHANGED sw
    /\ UNCHANGED <<cycleDurations, hostnames, servers, cycle, w, published, observer,
                   bvars, cvars, fvars, stats>>

\* Back in the sub-worker of resolveAll with a response: it is logged with
\* the breaker's state; Total++ comes next.
QState(id) ==
    /\ q[id].pc = "returned"
    /\ q[id].err = ""
    /\ GetState(q[id].Server)
    /\ q' = [q EXCEPT ![id].pc = "logged"]
    /\ StatBegin(id, CountsSuccess)
    /\ UNCHANGED <<cycleDurations, hostnames, servers, cycle, w, poolIdle, published,
                   observer, cvars, fvars, stats>>

\* Total counted, the response is appended to the hostname's list under
\* responseMu.
QAppend(id) ==
    /\ q[id].pc = "logged"
    /\ StatsWritten(id)
    /\ q' = [q EXCEPT ![id].pc = "appended"]
    /\ LET i == CHOOSE i \in 1..Len(hostnames) : hostnames[i] = q[id].Hostname IN
       w' = [w EXCEPT ![i].responses = Append(@, q[id].ret)]
    /\ UNCHANGED <<cycleDurations, hostnames, servers, cycle, poolIdle, published,
                   observer, bvars, cvars, fvars, tvars>>

\* The sub-worker returns, after the append or after the statements on the
\* stats that follow an error: its deferred serverWg.Done runs.
QDone(id) ==
    /\ \/ q[id].pc = "appended"
       \/ q[id].pc = "returned" /\ q[id].err # "" /\ StatsWritten(id)
    /\ q' = [q EXCEPT ![id].pc = "done"]
    /\ UNCHANGED <<cycleDurations, hostnames, servers, cycle, w, poolIdle, published,
                   observer, bvars, cvars, fvars, tvars>>

\* ------------------------------------------------------- a subscriber
\* The subscriber receives the ResolveSuccess{source=query} event some
\* sub-worker has published.
ObserverReceive(id) ==
    /\ observer.pc = "idle"
    /\ q[id].events # <<>>
    /\ q[id].events[1].Source = "query"
    /\ observer' = [observer EXCEPT !.pc = "received", !.by = id]
    /\ UNCHANGED <<cycleDurations, hostnames, servers, cycle, w, q, poolIdle, published,
                   bvars, cvars, fvars, tvars>>

\* It reads the cache for the event's hostname: ShardedCache.Get up to the
\* release of the read lock.
ObserverGet ==
    /\ observer.pc = "received"
    /\ GetBegin(Subscriber, q[observer.by].Hostname)
    /\ LET key == q[observer.by].Hostname
           look == Lookup(key)
           seen == [observer EXCEPT
                       !.inTime = ~(now > q[observer.by].expires),
                       !.latest = q[observer.by].setNo = SetsInShard(getShard(key))]
       IN observer' =
             CASE look = "live" ->
                    [seen EXCEPT !.pc = "read", !.hit = TRUE,
                                 !.response = shards[getShard(key)].entries[key].Response]
               [] look = "absent" -> [seen EXCEPT !.pc = "missed"]
               [] look = "expired" -> [seen EXCEPT !.pc = "upgrade"]
    /\ UNCHANGED <<cycleDurations, hostnames, servers, cycle, w, q, poolIdle, published,
                   bvars, fvars, tvars>>

\* The key was absent: the miss is counted and Get returns.
ObserverMiss ==
    /\ observer.pc = "missed"
    /\ GetMiss(Subscriber)
    /\ observer' = [observer EXCEPT !.pc = "read"]
    /\ UNCHANGED <<cycleDurations, hostnames, servers, cycle, w, q, poolIdle, published,
                   bvars, fvars, tvars>>

\* The entry was past its expiry: Get goes through the write lock and
\* returns a miss.
ObserverUpgrade ==
    /\ observer.pc = "upgrade"
    /\ GetUpgrade(Subscriber)
    /\ observer' = [observer EXCEPT !.pc = "read"]
    /\ UNCHANGED <<cycleDurations, hostnames, servers, cycle, w, q, poolIdle, published,
                   bvars, fvars, tvars>>

\* ========================================================= Start and runLoop
\* Ticks the ticker fires in a run.
MaxTicks == 4

\* startPc: where Start is: "start" before the initial cycle, "initial" in
\* it, "ticker" after it, "select" at runLoop's select, "cycle" in a cycle a
\* tick started, "returned". tickerStarted: time.NewTicker has been called.
\* tickChan: the ticks waiting in the ticker's channel (it holds one).
\* ticksFired, ticksReceived: the ticks the ticker has fired and runLoop has
\* received. ctxDone: ctx is cancelled. cyclesStarted, cyclesCompleted: the
\* calls of resolveAllFunc begun (CycleStart) and returned (CycleComplete).
\* startRet: what Start returned. loopOp: the last step.
VARIABLES startPc, tickerStarted, tickChan, ticksFired, ticksReceived, ctxDone,
          cyclesStarted, cyclesCompleted, startRet, loopOp

lvars == <<startPc, tickerStarted, tickChan, ticksFired, ticksReceived, ctxDone,
           cyclesStarted, cyclesCompleted, startRet, loopOp>>

\* A resolver on which Start is about to be called.
LoopInit ==
    /\ startPc = "start"
    /\ tickerStarted = FALSE
    /\ tickChan = 0
    /\ ticksFired = 0
    /\ ticksReceived = 0
    /\ ctxDone = FALSE
    /\ cyclesStarted = 0
    /\ cyclesCompleted = 0
    /\ startRet = "running"
    /\ loopOp = "none"

\* ctx is cancelled, at any moment.
CancelCtx ==
    /\ ~ctxDone
    /\ ctxDone' = TRUE
    /\ loopOp' = "cancel"
    /\ UNCHANGED <<startPc, tickerStarted, tickChan, ticksFired, ticksReceived,
                   cyclesStarted, cyclesCompleted, startRet>>

\* Start calls resolveAllFunc for the initial cycle.
SkipInitialCycle ==
    /\ startPc = "start"
    /\ startPc' = "ticker"
    /\ loopOp' = "initial"
    /\ UNCHANGED <<tickerStarted, tickChan, ticksFired, ticksReceived, ctxDone,
                   cyclesStarted, cyclesCompleted, startRet>>

StartInitialCycle ==
    /\ startPc = "start"
    /\ startPc' = "initial"
    /\ cyclesStarted' = cyclesStarted + 1
    /\ loopOp' = "initial"
    /\ UNCHANGED <<tickerStarted, tickChan, ticksFired, ticksReceived, ctxDone,
                   cyclesCompleted, startRet>>

\* resolveAllFunc returns, in Start or in runLoop.
CycleReturns ==
    /\ startPc \in {"initial", "cycle"}
    /\ startPc' = IF startPc = "initial" THEN "ticker" ELSE "select"
    /\ cyclesCompleted' = cyclesCompleted + 1
    /\ loopOp' = "complete"
    /\ UNCHANGED <<tickerStarted, tickChan, ticksFired, ticksReceived, ctxDone,
                   cyclesStarted, startRet>>

\* time.NewTicker, and the call of runLoop.
StartTicker ==
    /\ startPc = "ticker"
    /\ startPc' = "select"
    /\ tickerStarted' = TRUE
    /\ loopOp' = "ticker"
    /\ UNCHANGED <<tickChan, ticksFired, ticksReceived, ctxDone, cyclesStarted,
                   cyclesCompleted, startRet>>

\* The ticker fires: the tick waits in the channel, or is dropped if one is
\* waiting already.
TickerFires ==
    /\ tickerStarted
    /\ startPc # "returned"
    /\ ticksFired < MaxTicks
    /\ ticksFired' = ticksFired + 1
    /\ tickChan' = 1
    /\ loopOp' = "fire"
    /\ UNCHANGED <<startPc, tickerStarted, ticksReceived, ctxDone, cyclesStarted,
                   cyclesCompleted, startRet>>

\* runLoop's select takes the tick and calls resolveAllFunc.
LoopTick ==
    /\ startPc = "select"
    /\ tickChan > 0
    /\ tickChan' = tickChan - 1
    /\ ticksReceived' = ticksReceived + 1
    /\ startPc' = "cycle"
    /\ cyclesStarted' = cyclesStarted + 1
    /\ loopOp' = "tick"
    /\ UNCHANGED <<tickerStarted, ticksFired, ctxDone, cyclesCompleted, startRet>>

\* Whether runLoop's select can take ctx.Done().
DoneReadyWithTick == ctxDone /\ tickChan > 0

DoneReady == ctxDone

\* runLoop's select takes ctx.Done(): runLoop and Start return nil, and the
\* deferred ticker.Stop runs.
LoopReturn ==
    /\ startPc = "select"
    /\ DoneReady
    /\ startPc' = "returned"
    /\ startRet' = "nil"
    /\ loopOp' = "return"
    /\ UNCHANGED <<tickerStarted, tickChan, ticksFired, ticksReceived, ctxDone,
                   cyclesStarted, cyclesCompleted>>

\* ============================================================ health check
\* Requests the health endpoint serves in a run.
MaxRequests == 3

\* hc.servers as the checker is constructed with them, each spelled out in
\* characters (the probe looks for a colon in it): bare hosts, hosts with a
\* port, and a host given both ways.
HealthServerLists ==
    {<< <<"s", "1">> >>,
     << <<"s", "1">>, <<"s", "2">> >>,
     << <<"s", "1", ":", "5", "3">>, <<"s", "2", ":", "1">> >>,
     << <<"s", "1">>, <<"s", "1", ":", "5", "3">> >>}

\* hcServers: hc.servers. healthStatus: the status map, by the address
\* probed. probeIndex: 0 when checkServers is not running, else the position
\* in hc.servers of the server it probes next (it holds the write lock from
\* first to last).
\* healthResponses: what the handler has answered so far. healthOp: the last
\* step. healthIo: the last I/O a goroutine of the checker made (the TCP dial
\* of a probe, the write of a response) and the hold it had on hc.mu while
\* making it.
VARIABLES hcServers, healthStatus, probeIndex, healthResponses, healthOp, healthIo

hvars == <<hcServers, healthStatus, probeIndex, healthResponses, healthOp, healthIo>>

\* NewHealthChecker(config.DNSServers, ...)
HealthInit ==
    /\ hcServers \in HealthServerLists
    /\ healthStatus = [k \in {} |-> FALSE]
    /\ probeIndex = 0
    /\ healthResponses = <<>>
    /\ healthOp = "none"
    /\ healthIo = [kind |-> "none", lock |-> "none"]

\* checkServers takes the write lock.
ProbeBegin ==
    /\ probeIndex = 0
    /\ probeIndex' = 1
    /\ healthOp' = "probe"
    /\ UNCHANGED <<hcServers, healthStatus, healthResponses, healthIo>>

\* The address checkServers dials for a server: port 53 is assumed if the
\* server has no colon in it.
ProbeAddress(server) ==
    IF ~(\E k \in 1..Len(server) : server[k] = ":")
    THEN server \o <<":", "5", "3">>
    ELSE server

\* checkServers dials the next server and records under the address dialled
\* whether it answered; after the last one it releases the lock.
ProbeServer(up) ==
    /\ probeIndex > 0
    /\ LET key == ProbeAddress(hcServers[probeIndex]) IN
       healthStatus' = [k \in DOMAIN healthStatus \cup {key} |->
                           IF k = key THEN up ELSE healthStatus[k]]
    /\ probeIndex' = IF probeIndex = Len(hcServers) THEN 0 ELSE probeIndex + 1
    /\ healthOp' = "probe"
    /\ healthIo' = [kind |-> "dial", lock |-> IF probeIndex > 0 THEN "write" ELSE "none"]
    /\ UNCHANGED <<hcServers, healthResponses>>

\* Whether the handler finds a healthy server in the map.
AllHealthy(status) == \A k \in DOMAIN status : status[k]

AnyHealthy(status) == \E k \in DOMAIN status : status[k]

\* ServeHTTP, under the read lock from the look at the map to the write of
\* the response.
ServeHTTP ==
    /\ probeIndex = 0
    /\ Len(healthResponses) < MaxRequests
    /\ healthResponses' = Append(healthResponses,
                                 IF AnyHealthy(healthStatus)
                                 THEN [code |-> 200, body |-> "healthy"]
                                 ELSE [code |-> 503, body |-> "unhealthy"])
    /\ healthOp' = "serve"
    /\ healthIo' = [kind |-> "response", lock |-> "read"]
    /\ UNCHANGED <<hcServers, healthStatus, probeIndex>>

\* ========================================================== specifications
vars == <<now, bvars, cvars, evars, avars, pvars, lvars, hvars, fvars, rvars, tvars>>

\* The wall clock advances; the call records are of calls made at the instant.
Tick ==
    /\ now < LastInstant
    /\ now' = now + 1
    /\ cbOp' = NoBreakerOp
    /\ cacheOp' = NoCacheOp
    /\ busOp' = NoBusOp
    /\ UNCHANGED <<threshold, timeout, failures, lastError, cbStateGauge, cbFailuresTotal>>
    /\ UNCHANGED <<numShards, shards, cacheHits, cacheMisses, cacheEvictions,
                   cacheSizeGauge, getPc, cacheGets, gaugePc>>
    /\ UNCHANGED <<subs, chans, pub, nextEvent, received, unsub, busPanic>>
    /\ UNCHANGED <<avars, pvars, lvars, hvars, fvars, tvars, rvars>>

\* Every component as its constructor leaves it.
Constructed ==
    /\ BreakerInit /\ CacheInit /\ BusInit /\ CompareInit /\ PoolInit /\ LoopInit
    /\ HealthInit /\ ResolverInit /\ FanOutInit /\ StatsInit

Init == now = ProcessStart /\ Constructed

\* The configuration of the components a specification leaves idle.
BreakerIdle == threshold = 1 /\ timeout = 1
CacheIdle == numShards = 1
\* The cache as NewDNSResolver constructs it.
ResolverCache == numShards = ResolverShards
CompareIdle == cmpIn = <<>>
PoolIdle == poolMaxSize = 1 /\ poolTimeout = 1
HealthIdle == hcServers = << <<"s", "1">> >>
ResolverIdle == hostnames = <<"b">> /\ servers = <<"s1">>
InitBreaker == CacheIdle /\ CompareIdle /\ PoolIdle /\ HealthIdle /\ ResolverIdle /\ Init
InitCache ==
    /\ BreakerIdle /\ CompareIdle /\ PoolIdle /\ HealthIdle /\ ResolverIdle /\ Init
    /\ numShards <= MaxShards
InitBus == BreakerIdle /\ CacheIdle /\ CompareIdle /\ PoolIdle /\ HealthIdle /\ ResolverIdle /\ Init
InitCompare == BreakerIdle /\ CacheIdle /\ PoolIdle /\ HealthIdle /\ ResolverIdle /\ Init
InitFanOut ==
    BreakerIdle /\ ResolverCache /\ CompareIdle /\ PoolIdle /\ HealthIdle /\ servers = <<"s1">> /\ Init
InitPool == BreakerIdle /\ CacheIdle /\ CompareIdle /\ HealthIdle /\ ResolverIdle /\ Init
InitCacheSizes ==
    BreakerIdle /\ CompareIdle /\ PoolIdle /\ HealthIdle /\ ResolverIdle /\ numShards = 2 /\ Init
InitLoop ==
    BreakerIdle /\ ResolverCache /\ CompareIdle /\ PoolIdle /\ HealthIdle /\ ResolverIdle /\ Init
InitHealth == BreakerIdle /\ CacheIdle /\ CompareIdle /\ PoolIdle /\ ResolverIdle /\ Init
\* The configurations of the cycle: one hostname on one or two servers, two
\* hostnames on one server.
CycleConfigs ==
    {<< <<"b">>, <<"s1">> >>, << <<"b">>, <<"s1", "s2">> >>, << <<"b", "a">>, <<"s1">> >>}
\* With a server named with its port, under which the pool both keeps and
\* looks up its clients.
GetClientConfigs == {<< <<"b">>, <<"s1", "s2">> >>, << <<"b", "a">>, <<"s1:53">> >>}
\* One hostname on two servers, and two hostnames of one shard on one.
ObserveConfigs == {<< <<"b">>, <<"s1", "s2">> >>, << <<"b", "r">>, <<"s1">> >>}
\* A resolver as NewDNSResolver constructs it, about to run a cycle one
\* instant before the clock's horizon: the clock advances once while the
\* cycle runs, so that an entry stored with a TTL of 0 is found live by the
\* Gets of the same instant and expired by the later ones.
ResolverStart ==
    /\ BreakerIdle /\ ResolverCache /\ CompareIdle /\ PoolIdle /\ HealthIdle
    /\ now = LastInstant - 1
    /\ Constructed
InitCycle == ResolverStart /\ <<hostnames, servers>> \in CycleConfigs

\* The breaker of one server, called in any order at any time.
NextBreaker ==
    \/ Tick
    \/ \E s \in BreakerUnderTest : Allow(s) /\ UNCHANGED <<now, cvars, evars, avars, pvars, lvars, hvars, fvars, rvars, tvars>>
    \/ \E s \in BreakerUnderTest : RecordSuccess(s) /\ UNCHANGED <<now, cvars, evars, avars, pvars, lvars, hvars, fvars, rvars, tvars>>
    \/ \E s \in BreakerUnderTest : RecordFailure(s) /\ UNCHANGED <<now, cvars, evars, avars, pvars, lvars, hvars, fvars, rvars, tvars>>
    \/ \E s \in BreakerUnderTest : GetState(s) /\ UNCHANGED <<now, cvars, evars, avars, pvars, lvars, hvars, fvars, rvars, tvars>>
    \/ \E s \in BreakerUnderTest : Reset(s) /\ UNCHANGED <<now, cvars, evars, avars, pvars, lvars, hvars, fvars, rvars, tvars>>

SpecBreaker == InitBreaker /\ [][NextBreaker]_vars

\* The cache, with a reader and a writer at once.
NextCache ==
    \/ Tick
    \/ \E p \in Readers, k \in Keys :
          cacheGets < MaxGets /\ GetBegin(p, k) /\ UNCHANGED <<now, bvars, evars, avars, pvars, lvars, hvars, fvars, rvars, tvars>>
    \/ \E p \in Readers : GetMiss(p) /\ UNCHANGED <<now, bvars, evars, avars, pvars, lvars, hvars, fvars, rvars, tvars>>
    \/ \E p \in Readers : GetUpgrade(p) /\ UNCHANGED <<now, bvars, evars, avars, pvars, lvars, hvars, fvars, rvars, tvars>>
    \/ \E p \in Writers, k \in Keys, t \in 0..MaxTTL : \E r \in ResponsesFor(k) :
          cacheEvictions < MaxEvictions /\ Set(p, k, r, t) /\ UNCHANGED <<now, bvars, evars, avars, pvars, lvars, hvars, fvars, rvars, tvars>>
    \/ \E p \in Writers, k \in Keys : Delete(p, k) /\ UNCHANGED <<now, bvars, evars, avars, pvars, lvars, hvars, fvars, rvars, tvars>>
    \/ \E p \in Writers : Clear(p) /\ UNCHANGED <<now, bvars, evars, avars, pvars, lvars, hvars, fvars, rvars, tvars>>
    \/ \E p \in Writers : CountShard(p) /\ UNCHANGED <<now, bvars, evars, avars, pvars, lvars, hvars, fvars, rvars, tvars>>
    \/ \E p \in Writers : GaugeSet(p) /\ UNCHANGED <<now, bvars, evars, avars, pvars, lvars, hvars, fvars, rvars, tvars>>

SpecCache == InitCache /\ [][NextCache]_vars

\* One shard of the cache, filled by one caller's Sets of entries of two sizes.
NextCacheSizes ==
    \/ Tick
    \/ \E k \in SizeKeys, t \in 0..MaxTTL : \E r \in SizedResponsesFor(k) :
          cacheEvictions < MaxEvictions /\ Set("w1", k, r, t) /\ UNCHANGED <<now, bvars, evars, avars, pvars, lvars, hvars, fvars, rvars, tvars>>
    \/ CountShard("w1") /\ UNCHANGED <<now, bvars, evars, avars, pvars, lvars, hvars, fvars, rvars, tvars>>
    \/ GaugeSet("w1") /\ UNCHANGED <<now, bvars, evars, avars, pvars, lvars, hvars, fvars, rvars, tvars>>

SpecCacheSizes == InitCacheSizes /\ [][NextCacheSizes]_vars

\* The cache with two writers and a reader at once, on entries stored with
\* a ttl of 0.
InitCacheWriters == InitCache

NextCacheWriters ==
    \/ Tick
    \/ \E p \in Readers, k \in WriterKeys :
          cacheGets < MaxGets /\ GetBegin(p, k) /\ UNCHANGED <<now, bvars, evars, avars, pvars, lvars, hvars, fvars, rvars, tvars>>
    \/ \E p \in Readers : GetMiss(p) /\ UNCHANGED <<now, bvars, evars, avars, pvars, lvars, hvars, fvars, rvars, tvars>>
    \/ \E p \in Readers : GetUpgrade(p) /\ UNCHANGED <<now, bvars, evars, avars, pvars, lvars, hvars, fvars, rvars, tvars>>
    \/ \E p \in ConcurrentWriters, k \in WriterKeys : \E r \in ResponsesFor(k) :
          cacheEvictions < MaxEvictions /\ Set(p, k, r, 0) /\ UNCHANGED <<now, bvars, evars, avars, pvars, lvars, hvars, fvars, rvars, tvars>>
    \/ \E p \in ConcurrentWriters, k \in WriterKeys : Delete(p, k) /\ UNCHANGED <<now, bvars, evars, avars, pvars, lvars, hvars, fvars, rvars, tvars>>
    \/ \E p \in ConcurrentWriters : Clear(p) /\ UNCHANGED <<now, bvars, evars, avars, pvars, lvars, hvars, fvars, rvars, tvars>>
    \/ \E p \in ConcurrentWriters : CountShard(p) /\ UNCHANGED <<now, bvars, evars, avars, pvars, lvars, hvars, fvars, rvars, tvars>>
    \/ \E p \in ConcurrentWriters : GaugeSet(p) /\ UNCHANGED <<now, bvars, evars, avars, pvars, lvars, hvars, fvars, rvars, tvars>>

SpecCacheWriters == InitCacheWriters /\ [][NextCacheWriters]_vars

\* The event bus, with concurrent publishers, subscribers and unsubscribes.
NextBus ==
    \/ \E h \in BufferHints : Subscribe(h) /\ UNCHANGED <<now, bvars, cvars, avars, pvars, lvars, hvars, fvars, rvars, tvars>>
    \/ \E c \in ChanIds : UnsubscribeDelete(c) /\ UNCHANGED <<now, bvars, cvars, avars, pvars, lvars, hvars, fvars, rvars, tvars>>
    \/ \E c \in ChanIds : UnsubscribeClose(c) /\ UNCHANGED <<now, bvars, cvars, avars, pvars, lvars, hvars, fvars, rvars, tvars>>
    \/ \E p \in Publishers : PublishBegin(p) /\ UNCHANGED <<now, bvars, cvars, avars, pvars, lvars, hvars, fvars, rvars, tvars>>
    \/ \E p \in Publishers : PublishSend(p) /\ UNCHANGED <<now, bvars, cvars, avars, pvars, lvars, hvars, fvars, rvars, tvars>>
    \/ \E p \in Publishers : PublishEnd(p) /\ UNCHANGED <<now, bvars, cvars, avars, pvars, lvars, hvars, fvars, rvars, tvars>>
    \/ \E c \in ChanIds : Receive(c) /\ UNCHANGED <<now, bvars, cvars, avars, pvars, lvars, hvars, fvars, rvars, tvars>>

SpecBus == InitBus /\ [][NextBus]_vars

\* A goroutine inside publish is scheduled until publish returns; nothing is
\* assumed of the subscribers, who may never receive.
PublishStep(p) == (PublishSend(p) \/ PublishEnd(p)) /\ UNCHANGED <<now, bvars, cvars, avars, pvars, lvars, hvars, fvars, rvars, tvars>>
SpecBusFair == SpecBus /\ \A p \in Publishers : WF_vars(PublishStep(p))

\* The consistency predicate, applied to any list of responses.
NextCompare == Compare /\ UNCHANGED <<now, bvars, cvars, evars, pvars, lvars, hvars, fvars, rvars, tvars>>

SpecCompare == InitCompare /\ [][NextCompare]_vars

\* One cycle's hostname workers going through the semaphore.
NextFanOut ==
    \/ SpawnWorker /\ UNCHANGED <<now, bvars, cvars, evars, avars, pvars, lvars, hvars, rvars, tvars>>
    \/ AcquireSlot /\ UNCHANGED <<now, bvars, cvars, evars, avars, pvars, lvars, hvars, rvars, tvars>>
    \/ ReleaseSlot /\ UNCHANGED <<now, bvars, cvars, evars, avars, pvars, lvars, hvars, rvars, tvars>>
    \/ WorkerDone /\ UNCHANGED <<now, bvars, cvars, evars, avars, pvars, lvars, hvars, rvars, tvars>>
    \/ AwaitWorkers /\ UNCHANGED <<now, bvars, cvars, evars, avars, pvars, lvars, hvars, rvars, tvars>>

SpecFanOut == InitFanOut /\ [][NextFanOut]_vars

\* The loop and every worker that can take a step are scheduled, and every
\* query of a worker's fan-out returns, so that the worker gets to its end.
SpecFanOutFair == SpecFanOut /\ WF_vars(NextFanOut)

\* The client pool, with callers that get clients, change their timeouts and
\* give them back under either form of the server's name.
NextPool ==
    \/ \E s \in PoolServers : PoolClientGet(s) /\ UNCHANGED <<now, bvars, cvars, evars, avars, lvars, hvars, fvars, rvars, tvars>>
    \/ \E c \in ClientIds, t \in ClientTimeouts :
          SetClientTimeout(c, t) /\ UNCHANGED <<now, bvars, cvars, evars, avars, lvars, hvars, fvars, rvars, tvars>>
    \/ \E s \in PoolServers, c \in ClientIds :
          PoolClientPut(s, c) /\ UNCHANGED <<now, bvars, cvars, evars, avars, lvars, hvars, fvars, rvars, tvars>>

SpecPool == InitPool /\ [][NextPool]_vars

\* Start and its run loop, with a ticker that fires and a context that is
\* cancelled at any moment.
LoopStep ==
    \/ StartInitialCycle /\ UNCHANGED <<now, bvars, cvars, evars, avars, pvars, hvars, fvars, rvars, tvars>>
    \/ CycleReturns /\ UNCHANGED <<now, bvars, cvars, evars, avars, pvars, hvars, fvars, rvars, tvars>>
    \/ StartTicker /\ UNCHANGED <<now, bvars, cvars, evars, avars, pvars, hvars, fvars, rvars, tvars>>
    \/ LoopTick /\ UNCHANGED <<now, bvars, cvars, evars, avars, pvars, hvars, fvars, rvars, tvars>>

ReturnStep == LoopReturn /\ UNCHANGED <<now, bvars, cvars, evars, avars, pvars, hvars, fvars, rvars, tvars>>

NextLoop ==
    \/ LoopStep
    \/ ReturnStep
    \/ CancelCtx /\ UNCHANGED <<now, bvars, cvars, evars, avars, pvars, hvars, fvars, rvars, tvars>>
    \/ TickerFires /\ UNCHANGED <<now, bvars, cvars, evars, avars, pvars, hvars, fvars, rvars, tvars>>

SpecLoop == InitLoop /\ [][NextLoop]_vars

\* The goroutine of Start is scheduled, every cycle it starts returns, and a
\* select that finds ctx.Done() ready again and again takes it in the end
\* (select picks among its ready cases at random). Nothing is assumed of the
\* ticker or of the cancellation.
SpecLoopFair == SpecLoop /\ WF_vars(LoopStep) /\ SF_vars(ReturnStep)

\* The health checker: probes of the configured servers, and requests to the
\* endpoint between them.
NextHealth ==
    \/ ProbeBegin /\ UNCHANGED <<now, bvars, cvars, evars, avars, pvars, lvars, fvars, rvars, tvars>>
    \/ \E up \in BOOLEAN :
          ProbeServer(up) /\ UNCHANGED <<now, bvars, cvars, evars, avars, pvars, lvars, fvars, rvars, tvars>>
    \/ ServeHTTP /\ UNCHANGED <<now, bvars, cvars, evars, avars, pvars, lvars, fvars, rvars, tvars>>

SpecHealth == InitHealth /\ [][NextHealth]_vars

\* The statistics of one server over one cycle of one or two hostnames.
InitStats ==
    /\ BreakerIdle /\ ResolverCache /\ CompareIdle /\ PoolIdle /\ HealthIdle
    /\ hostnames \in {<<"b">>, <<"b", "a">>} /\ servers = <<"s1">>
    /\ Init

NextStats ==
    \/ \E id \in StatWorkers, kind \in ResolutionKinds :
          StatResolve(id, kind) /\ UNCHANGED <<now, bvars, cvars, evars, avars, pvars, lvars, hvars, fvars, rvars>>
    \/ \E id \in StatWorkers : StatLoad(id) /\ UNCHANGED <<now, bvars, cvars, evars, avars, pvars, lvars, hvars, fvars, rvars>>
    \/ \E id \in StatWorkers : StatStore(id) /\ UNCHANGED <<now, bvars, cvars, evars, avars, pvars, lvars, hvars, fvars, rvars>>
    \/ \E id \in StatWorkers, word \in StringWords : StatSetError(id, word) /\ UNCHANGED <<now, bvars, cvars, evars, avars, pvars, lvars, hvars, fvars, rvars>>
    \/ \E id \in StatWorkers : StatDone(id) /\ UNCHANGED <<now, bvars, cvars, evars, avars, pvars, lvars, hvars, fvars, rvars>>

SpecStats == InitStats /\ [][NextStats]_vars

\* One resolution cycle: the hostname workers and their per-server
\* sub-workers, over the cache, the breakers, the pool and the stats, as
\* time passes.
HostStep ==
    \/ CycleBegin /\ UNCHANGED <<bvars, cvars, fvars, tvars>> /\ UNCHANGED <<now, evars, avars, pvars, lvars, hvars>>
    \/ HostSpawn /\ UNCHANGED <<bvars, cvars, tvars>> /\ UNCHANGED <<now, evars, avars, pvars, lvars, hvars>>
    \/ \E i \in 1..Len(hostnames) : HostAcquire(i) /\ UNCHANGED <<bvars, cvars, tvars>> /\ UNCHANGED <<now, evars, avars, pvars, lvars, hvars>>
    \/ \E i \in 1..Len(hostnames) : HostCheck(i) /\ UNCHANGED <<bvars, cvars, fvars, tvars>> /\ UNCHANGED <<now, evars, avars, pvars, lvars, hvars>>
    \/ \E i \in 1..Len(hostnames) : HostEmit(i) /\ UNCHANGED <<bvars, cvars, fvars, tvars>> /\ UNCHANGED <<now, evars, avars, pvars, lvars, hvars>>
    \/ \E i \in 1..Len(hostnames) : HostRelease(i) /\ UNCHANGED <<bvars, cvars, tvars>> /\ UNCHANGED <<now, evars, avars, pvars, lvars, hvars>>
    \/ \E i \in 1..Len(hostnames) : HostDone(i) /\ UNCHANGED <<bvars, cvars, tvars>> /\ UNCHANGED <<now, evars, avars, pvars, lvars, hvars>>
    \/ CycleEnd /\ UNCHANGED <<bvars, cvars, tvars>> /\ UNCHANGED <<now, evars, avars, pvars, lvars, hvars>>

\* The steps of a sub-worker that do not depend on a failure.
PipelineStep ==
    \/ \E id \in SubWorkers : QGet(id) /\ UNCHANGED <<now, evars, avars, pvars, lvars, hvars>>
    \/ \E id \in SubWorkers : QGetMiss(id) /\ UNCHANGED <<now, evars, avars, pvars, lvars, hvars>>
    \/ \E id \in SubWorkers : QGetUpgrade(id) /\ UNCHANGED <<now, evars, avars, pvars, lvars, hvars>>
    \/ \E id \in SubWorkers : QHit(id) /\ UNCHANGED <<now, evars, avars, pvars, lvars, hvars>>
    \/ \E id \in SubWorkers : QAllow(id) /\ UNCHANGED <<now, evars, avars, pvars, lvars, hvars>>
    \/ \E id \in SubWorkers : QSend(id) /\ UNCHANGED <<now, evars, avars, pvars, lvars, hvars>>
    \/ \E id \in SubWorkers : QStatLoad(id) /\ UNCHANGED <<now, evars, avars, pvars, lvars, hvars>>
    \/ \E id \in SubWorkers : QStatStore(id) /\ UNCHANGED <<now, evars, avars, pvars, lvars, hvars>>
    \/ \E id \in SubWorkers : QSet(id) /\ UNCHANGED <<now, evars, avars, pvars, lvars, hvars>>
    \/ \E id \in SubWorkers : QCount(id) /\ UNCHANGED <<now, evars, avars, pvars, lvars, hvars>>
    \/ \E id \in SubWorkers : QGauge(id) /\ UNCHANGED <<now, evars, avars, pvars, lvars, hvars>>
    \/ \E id \in SubWorkers : QSucceed(id) /\ UNCHANGED <<now, evars, avars, pvars, lvars, hvars>>
    \/ \E id \in SubWorkers : QPut(id) /\ UNCHANGED <<now, evars, avars, pvars, lvars, hvars>>
    \/ \E id \in SubWorkers : QState(id) /\ UNCHANGED <<now, evars, avars, pvars, lvars, hvars>>
    \/ \E id \in SubWorkers : QAppend(id) /\ UNCHANGED <<now, evars, avars, pvars, lvars, hvars>>
    \/ \E id \in SubWorkers : QDone(id) /\ UNCHANGED <<now, evars, avars, pvars, lvars, hvars>>

\* The steps a sub-worker takes only after a failure.
FailureStep ==
    \/ \E id \in SubWorkers : QOpen(id) /\ UNCHANGED <<now, evars, avars, pvars, lvars, hvars>>
    \/ \E id \in SubWorkers : QFail(id) /\ UNCHANGED <<now, evars, avars, pvars, lvars, hvars>>
    \/ \E id \in SubWorkers, word \in StringWords : QStatSetError(id, word) /\ UNCHANGED <<now, evars, avars, pvars, lvars, hvars>>

\* What the queries of a configuration come back with: any outcome when one
\* hostname is resolved, and for two hostnames a transport error, a
\* non-success rcode or a success with one address.
SharedOutcomes == {o \in Outcomes : o.kind # "ok" \/ o.addrs = <<"1.1.1.1">>}
QueryOutcomes == IF Len(hostnames) = 1 THEN Outcomes ELSE SharedOutcomes

CycleStep ==
    \/ HostStep
    \/ PipelineStep
    \/ FailureStep
    \/ \E id \in SubWorkers, o \in QueryOutcomes : QRecv(id, o) /\ UNCHANGED <<now, evars, avars, pvars, lvars, hvars>>

NextCycle == Tick \/ CycleStep

SpecCycle == InitCycle /\ [][NextCycle]_vars

\* The cycle with queries that come back with a transport error or with a
\* success of one address, and when one hostname is resolved also with a
\* success without addresses.
FairOutcomes ==
    {o \in Outcomes : o.kind = "error" \/ o.addrs = <<"1.1.1.1">>
                         \/ (Len(hostnames) = 1 /\ o.kind = "ok" /\ o.addrs = <<>>)}

InitCycleFair == InitCycle

FairStep ==
    \/ HostStep
    \/ PipelineStep
    \/ FailureStep
    \/ \E id \in SubWorkers, o \in FairOutcomes : QRecv(id, o) /\ UNCHANGED <<now, evars, avars, pvars, lvars, hvars>>

NextCycleFair == Tick \/ FairStep

\* Every goroutine of the cycle that can take a step is scheduled, and every
\* query sent comes back (the client's timeout sees to it).
SpecCycleFair == InitCycleFair /\ [][NextCycleFair]_vars /\ WF_vars(FairStep)

\* One resolution cycle of a resolver whose getClient may fail.
InitGetClient == ResolverStart /\ <<hostnames, servers>> \in GetClientConfigs

NextGetClient ==
    \/ NextCycle
    \/ \E id \in SubWorkers : QGetClientFails(id) /\ UNCHANGED <<now, evars, avars, pvars, lvars, hvars>>

SpecGetClient == InitGetClient /\ [][NextGetClient]_vars

\* A resolver of two hostnames and two servers about to run a cycle, an
\* earlier cycle having left a live entry for each hostname in the cache:
\* in that cycle, run one instant ago, the two queries to the first server
\* were answered with one address and stored for MaxTTL, and the sub-workers
\* of the second server were served from the cache. The first server's
\* breaker has counted its two Allow and two RecordSuccess calls; the size
\* gauge holds what the later of the two unsynchronised gauge writes counted,
\* and the servers' Total what the unsynchronised increments left. The
\* goroutines of the new cycle start afresh, and the events and the cycle
\* durations are counted from here.
WarmEntry(h) ==
    LET response == [Server |-> "s1", Hostname |-> h, Addresses |-> <<"1.1.1.1">>]
    IN [Response |-> response, Expires |-> LastInstant, Size |-> estimateSize(response)]
WarmShard(i) ==
    LET held == {h \in {"a", "b"} : getShard(h) = i}
    IN IF held = {} THEN [entries |-> NoEntries, size |-> 0]
       ELSE LET h == CHOOSE x \in held : TRUE
            IN [entries |-> With(NoEntries, h, WarmEntry(h)), size |-> WarmEntry(h).Size]
WarmStart ==
    /\ hostnames = <<"b", "a">>
    /\ servers = <<"s1", "s2">>
    /\ BreakerIdle /\ CompareIdle /\ PoolIdle /\ HealthIdle
    /\ failures = [s \in Servers |-> 0]
    /\ lastError = [s \in Servers |-> ZeroTime]
    /\ cbStateGauge = [s \in Servers |-> Closed]
    /\ cbFailuresTotal = [s \in Servers |-> IF s = "s1" THEN 4 ELSE 0]
    /\ cbOp = NoBreakerOp
    /\ BusInit /\ CompareInit /\ PoolInit /\ LoopInit /\ HealthInit
    /\ FanOutInit
    /\ now = LastInstant
    /\ numShards = ResolverShards
    /\ shards = [i \in 0..(numShards - 1) |-> WarmShard(i)]
    /\ cacheHits = 2
    /\ cacheMisses = 2
    /\ cacheGets = 4
    /\ cacheEvictions = 0
    /\ cacheSizeGauge \in 1..2
    /\ getPc = [p \in Getters |-> [pc |-> "idle", key |-> ""]]
    /\ gaugePc = [p \in Setters |-> NoRefresh]
    /\ cacheOp = NoCacheOp
    /\ \E t1 \in 2..4, t2 \in 1..2 :
          stats = [s \in Servers |->
                     [Total |-> IF s = "s1" THEN t1 ELSE IF s = "s2" THEN t2 ELSE 0,
                      Failures |-> 0, LastError |-> NoString]]
    /\ sw = [id \in StatWorkers |-> [pc |-> "idle", kind |-> "", todo |-> <<>>, reg |-> 0,
                                      half |-> {}]]
    /\ cycle = "idle"
    /\ w = [i \in 1..Len(hostnames) |-> [pc |-> "idle", responses |-> <<>>, checked |-> FALSE,
                                             gauge |-> <<>>, inconsistent |-> 0]]
    /\ q = [id \in SubWorkers |-> IdleSubWorker]
    /\ poolIdle = [k \in PoolKeys |-> IF k = "s1" THEN 2 ELSE 0]
    /\ published = [cycle_start |-> 0, cycle_complete |-> 0, resolve_success |-> 0,
                    resolve_failure |-> 0, inconsistent |-> 0]
    /\ cycleDurations = 0
    /\ observer = IdleObserver

\* One cycle in which every server answers every query with success: no
\* query fails, so no breaker opens. With one hostname or one server the
\* cycle starts on an empty cache; with two of each, on one that holds both
\* hostnames.
OkOutcomes == {o \in Outcomes : o.kind = "ok"}
SucceedOutcomes == IF Len(hostnames) = 1 THEN OkOutcomes ELSE OkOutcomes \cap SharedOutcomes

InitAllSucceed ==
    \/ ResolverStart /\ <<hostnames, servers>> \in CycleConfigs
    \/ WarmStart

SucceedStep ==
    \/ HostStep
    \/ PipelineStep
    \/ \E id \in SubWorkers, o \in SucceedOutcomes : QRecv(id, o) /\ UNCHANGED <<now, evars, avars, pvars, lvars, hvars>>

NextAllSucceed == Tick \/ SucceedStep

SpecAllSucceed == InitAllSucceed /\ [][NextAllSucceed]_vars

\* One cycle in which every query succeeds, with a subscriber of the bus
\* that receives one ResolveSuccess{source=query} event and then reads the
\* cache for its hostname. One hostname's queries are answered with no
\* address (a TTL of 0) or with one, two hostnames' queries with one.
ObservedOutcomes ==
    IF Len(hostnames) = 1 THEN {o \in OkOutcomes : Len(o.addrs) <= 1}
    ELSE OkOutcomes \cap SharedOutcomes

InitObserve == ResolverStart /\ <<hostnames, servers>> \in ObserveConfigs

ObserverStep ==
    \/ \E id \in SubWorkers : ObserverReceive(id) /\ UNCHANGED <<now, evars, avars, pvars, lvars, hvars>>
    \/ ObserverGet /\ UNCHANGED <<now, evars, avars, pvars, lvars, hvars>>
    \/ ObserverMiss /\ UNCHANGED <<now, evars, avars, pvars, lvars, hvars>>
    \/ ObserverUpgrade /\ UNCHANGED <<now, evars, avars, pvars, lvars, hvars>>

NextObserve ==
    \/ Tick
    \/ HostStep
    \/ PipelineStep
    \/ \E id \in SubWorkers, o \in ObservedOutcomes : QRecv(id, o) /\ UNCHANGED <<now, evars, avars, pvars, lvars, hvars>>
    \/ ObserverStep

SpecObserve == InitObserve /\ [][NextObserve]_vars

\* ================================================================== claims
\* The breaker state of §4.3's mapping, from the stored fields and an instant.
MappedState(f, le, t) ==
    IF f < threshold THEN "closed"
    ELSE IF t - le < timeout THEN "open" ELSE "half-open"

\* C1: Allow returns false if and only if failures >= threshold and
\* now - last_error_at < timeout; in every other case it returns true.
C1_AllowFalseIffOpen ==
    cbOp.op = "Allow" =>
        LET s == cbOp.server IN
        /\ cbOp.ret \in BOOLEAN
        /\ (cbOp.ret = FALSE) <=> (failures[s] >= threshold /\ now - lastError[s] < timeout)
        /\ (cbOp.ret = TRUE) <=> (MappedState(failures[s], lastError[s], now) \in {"closed", "half-open"})

\* Allow has refused a call on an open breaker of threshold 2.
C1_Witness ==
    /\ cbOp.op = "Allow"
    /\ threshold = 2
    /\ failures[cbOp.server] >= threshold
    /\ cbOp.ret = FALSE

\* C2: the state reported is Closed when failures < threshold, Open when
\* failures >= threshold and now - last_error_at < timeout, HalfOpen when
\* failures >= threshold and now - last_error_at >= timeout; an open breaker left
\* alone is reported HalfOpen from last_error_at + timeout on and not before.
C2_StateIsFunctionOfFields ==
    cbOp.op = "GetState" =>
        LET s == cbOp.server IN
        /\ failures[s] < threshold => cbOp.ret = "closed"
        /\ (failures[s] >= threshold /\ now - lastError[s] < timeout) => cbOp.ret = "open"
        /\ (failures[s] >= threshold /\ now - lastError[s] >= timeout) => cbOp.ret = "half-open"
        /\ failures[s] >= threshold =>
               ((cbOp.ret = "half-open") <=> (now >= lastError[s] + timeout))

\* A breaker of threshold 1, opened by its first failure, is reported half-open
\* at the instant last_error_at + timeout.
C2_Witness ==
    /\ cbOp.op = "GetState"
    /\ threshold = 1
    /\ failures[cbOp.server] = 1
    /\ now = lastError[cbOp.server] + timeout
    /\ cbOp.ret = "half-open"

\* C3: right after RecordSuccess, failures = 0 and the state gauge reads 0
\* (Closed), whatever the state before; the breaker is then Closed.
C3_SuccessCloses ==
    cbOp.op = "RecordSuccess" =>
        LET s == cbOp.server IN
        /\ failures[s] = 0
        /\ cbStateGauge[s] = 0
        /\ MappedState(failures[s], lastError[s], now) = "closed"

\* One success has been recorded on a half-open breaker of threshold 2.
C3_Witness ==
    /\ cbOp.op = "RecordSuccess"
    /\ threshold = 2
    /\ MappedState(cbOp.preFailures, cbOp.preLastError, now) = "half-open"

\* C4: RecordFailure adds exactly one to failures, sets last_error_at to the
\* current time, and sets the state gauge to 1 (Open) whenever the state it
\* leaves is Open.
C4_FailureCounts ==
    cbOp.op = "RecordFailure" =>
        LET s == cbOp.server IN
        /\ failures[s] = cbOp.preFailures + 1
        /\ lastError[s] = now
        /\ MappedState(failures[s], lastError[s], now) = "open" => cbStateGauge[s] = 1

\* A failure has been recorded on a breaker that was half-open (and shown so on
\* the gauge), and has put it back into Open.
C4_Witness ==
    /\ cbOp.op = "RecordFailure"
    /\ MappedState(cbOp.preFailures, cbOp.preLastError, now) = "half-open"
    /\ cbOp.preGauge = HalfOpen
    /\ MappedState(failures[cbOp.server], lastError[cbOp.server], now) = "open"

\* C5: breaker_failures_total changes only in RecordFailure: Allow,
\* RecordSuccess (and GetState) leave it as they found it.
C5_CounterOnlyOnRecordFailure ==
    cbOp.op \in {"Allow", "RecordSuccess", "GetState"} =>
        cbFailuresTotal[cbOp.server] = cbOp.preCounter

\* C6 (README): a half-open breaker closes only after failure_threshold
\* successes recorded in the half-open state, so with a threshold above one the
\* first success recorded in the half-open state does not close it.
C6_ThresholdSuccessesToClose ==
    (/\ cbOp.op = "RecordSuccess"
     /\ threshold > 1
     /\ MappedState(cbOp.preFailures, cbOp.preLastError, now) = "half-open")
    => MappedState(failures[cbOp.server], lastError[cbOp.server], now) # "closed"

\* C7: whenever Get returns an entry as a hit, now < expires_at of that entry
\* at the moment of return.
C7_HitIsBeforeExpiry ==
    (cacheOp.op = "Get" /\ cacheOp.hit) => now < cacheOp.expires

\* C8: whenever Set finds shard.size plus the new size over the quota (in a
\* shard that holds something to evict), one entry is evicted and its
\* expires_at is the smallest among the entries the shard held.
C8_EvictsEarliestExpiry ==
    (cacheOp.op = "Set" /\ cacheOp.over /\ cacheOp.preKeys # {}) =>
        /\ Cardinality(cacheOp.evicted) = 1
        /\ cacheOp.evicted \subseteq cacheOp.preOldest

\* C9: when the entry stored is larger than the per-shard quota, the shard
\* holds exactly one entry after the Set, the new one: the entry held before
\* was evicted first.
C9_OversizedEntryAlone ==
    (/\ cacheOp.op = "Set"
     /\ cacheOp.size > ShardQuota
     /\ Cardinality(cacheOp.preKeys) <= 1)
    => DOMAIN shards[getShard(cacheOp.key)].entries = {cacheOp.key}

\* What C10 says of each state: a publisher inside publish can always take
\* its next step, whatever the channels hold; an attempt on a full channel
\* leaves that channel as it was and moves on, an attempt on a channel with
\* room appends the event; and when publish returns every subscriber of the
\* bus was attempted, each having the event unless its channel was full.
C10_EachAttempt ==
    /\ \A p \in Publishers :
          (pub[p].pc = "sending" /\ ~busPanic) => ENABLED PublishStep(p)
    /\ (busOp.op = "send" /\ ~busPanic) =>
          LET c == busOp.ch
              p == busOp.by
          IN /\ c \notin pub[p].todo
             /\ IF busOp.preLen >= chans[c].cap
                THEN Len(chans[c].buf) = busOp.preLen /\ c \in pub[p].full
                ELSE /\ Len(chans[c].buf) = busOp.preLen + 1
                     /\ chans[c].buf[Len(chans[c].buf)] = busOp.event
                     /\ c \in pub[p].sent
    /\ busOp.op = "published" =>
          /\ busOp.sent \cup busOp.full = busOp.snap
          /\ busOp.sent \cap busOp.full = {}

\* C10: publish never blocks on a subscriber: the event is dropped for every
\* subscriber whose channel is full and for that subscriber only, the others
\* receive it, and every publish that has begun returns, whether or not any
\* subscriber ever drains its channel.
C10_PublishNeverBlocks ==
    /\ []C10_EachAttempt
    /\ \A p \in Publishers :
          (pub[p].pc = "sending") ~> (pub[p].pc = "idle" \/ busPanic)

\* A publish has returned after dropping the event for a subscriber whose
\* channel was full and delivering it to another, no subscriber having ever
\* received anything.
C10_Witness ==
    /\ busOp.op = "published"
    /\ busOp.full # {}
    /\ busOp.sent # {}
    /\ \A c \in ChanIds : received[c] = <<>>
    /\ \E c \in busOp.full : Len(chans[c].buf) = chans[c].cap

\* C11: the events a subscriber receives are a subsequence of one sequence,
\* the published events in publish order; whatever that order is, no two
\* subscribers then receive the same two events in opposite orders, also
\* when several workers publish at the same time.
C11_ReceivedInPublishOrder ==
    \A c, d \in ChanIds :
       \A i, j \in 1..Len(received[c]) : \A k, l \in 1..Len(received[d]) :
          (i < j /\ received[c][i] = received[d][k] /\ received[c][j] = received[d][l])
          => k < l

\* C12: however often a consumer invokes the unsubscribe handle, the
\* subscription is removed and the channel is closed exactly once: no
\* invocation closes a channel that is closed already (which panics), and
\* after every completed invocation the channel is closed and off the bus.
C12_UnsubscribeClosesOnce ==
    /\ ~busPanic
    /\ \A c \in ChanIds :
          (unsub[c].calls > 0 /\ unsub[c].pc = "idle") =>
              (c \notin subs /\ chans[c].closed)

\* The addresses of a response, as a set.
AddressSet(response) == {response.Addresses[k] : k \in 1..Len(response.Addresses)}

\* C20: the consistency predicate is true exactly when every two responses
\* of the list have the same set of addresses and as many addresses, also
\* when an address list holds an address twice.
C20_ConsistentIffPairwiseEqual ==
    cmpOut.done =>
        (cmpOut.consistent <=>
            \A i, j \in 1..Len(cmpIn) :
               /\ AddressSet(cmpIn[i]) = AddressSet(cmpIn[j])
               /\ Len(cmpIn[i].Addresses) = Len(cmpIn[j].Addresses))

\* C13: at every moment of a cycle at most 10 hostname workers are in their
\* per-server fan-out, however many hostnames are configured.
C13_AtMostTenInFanOut == sem <= 10

\* More than ten hostnames are configured, ten workers are in their fan-out
\* and none waits: the eleventh took the slot a worker had given back before
\* that worker's wg.Done.
C13_Witness == hostCount > 10 /\ sem = 10 /\ queued = 0 /\ leaving = 1

\* The sub-workers of the configuration, and what one is expected to publish.
Configured == {SubWorker(hostnames[i], s) : i \in 1..Len(hostnames), s \in ServerSet}
Expect(r, type, error, addrs, source) ==
    <<[Type |-> type, Hostname |-> r.Hostname, Server |-> r.Server, Error |-> error,
       Addresses |-> addrs, Source |-> source]>>

\* The events of the cycle's resolutions published so far.
ResolutionEvents ==
    published.resolve_success + published.resolve_failure + published.inconsistent

\* What C14 says of each state: once CycleComplete is published, CycleStart
\* has been, and every hostname worker and every sub-worker has finished.
C14_EachState ==
    published.cycle_complete > 0 =>
       /\ published.cycle_start = 1
       /\ \A i \in 1..Len(hostnames) : w[i].pc = "done"
       /\ \A id \in Configured : q[id].pc = "done" /\ Len(q[id].events) = 1

\* What C14 says of each step: one that publishes a ResolveSuccess, a
\* ResolveFailure or an Inconsistent event is taken with CycleStart
\* published and CycleComplete not yet.
C14_EachStep ==
    ResolutionEvents' # ResolutionEvents =>
        (published.cycle_start = 1 /\ published.cycle_complete = 0)

\* C14: CycleStart is published before any ResolveSuccess, ResolveFailure or
\* Inconsistent event of the cycle, and CycleComplete after all of them, when
\* every hostname worker and every sub-worker has finished.
C14_CycleEventsBracketed == []C14_EachState /\ [][C14_EachStep]_vars

\* CycleComplete has been published, after resolve events and an
\* Inconsistent event.
C14_Witness ==
    /\ published.cycle_complete = 1
    /\ published.resolve_success = 2
    /\ published.inconsistent = 1

\* Whether a sub-worker has published ResolveSuccess{source=query}.
PublishedQuerySuccess(id) == q[id].events # <<>> /\ q[id].events[1].Source = "query"

\* The first half of C15: the sub-worker that has published
\* ResolveSuccess{source=query} has made its one cache.Set, which has
\* returned.
C15_SetReturned ==
    \A id \in SubWorkers :
       PublishedQuerySuccess(id) =>
          /\ Count(q[id].trace, "cache.Set") = 1
          /\ q[id].setNo > 0
          /\ gaugePc[id].pc = "idle"

\* C15, as stated: the cache insertion has completed when
\* ResolveSuccess{source=query} is published, and the subscriber that has
\* received the event and then read the cache for its hostname got a hit on
\* the entry the query stored.
C15_SuccessEventImpliesHit ==
    /\ C15_SetReturned
    /\ observer.pc = "read" =>
          (observer.hit /\ observer.response = q[observer.by].response)

\* C15, amended: the cache insertion has completed when
\* ResolveSuccess{source=query} is published, and the subscriber that has
\* received the event and then read the cache for its hostname got a hit on
\* the entry the query stored if, when it read, the entry was not past its
\* expiry and no insertion into the entry's shard had been made after it (for
\* the same hostname by the sub-worker of another server, or for another
\* hostname of the shard).
C15_StoredBeforeSuccessEvent ==
    /\ C15_SetReturned
    /\ (observer.pc = "read" /\ observer.inTime /\ observer.latest) =>
          (observer.hit /\ observer.response = q[observer.by].response)

\* The subscriber has received the event of the sub-worker whose insertion
\* was the second into the shard, the first being another hostname's, and its
\* read of the cache has hit on that sub-worker's entry.
C15_Witness ==
    /\ observer.pc = "read"
    /\ observer.hit
    /\ observer.inTime /\ observer.latest
    /\ Len(hostnames) = 2
    /\ q[observer.by].setNo = 2
    /\ observer.response = q[observer.by].response

\* C16: a sub-worker whose cache lookup missed and whose Allow returned false
\* calls neither the pool nor the network; it counts one failure under
\* circuit_breaker, publishes one ResolveFailure{source=circuit_breaker,
\* error="circuit breaker open"} and returns a circuit-open error.
C16_CircuitOpenFailsLocally ==
    \A id \in SubWorkers :
       q[id].allow = "false" =>
          /\ ~q[id].hit
          /\ q[id].pc \in {"open", "returned", "done"}
          /\ q[id].pc = "open" =>
                q[id].trace = <<"cache.Get", "metrics.cache_miss", "breaker.Allow">>
          /\ q[id].pc \in {"returned", "done"} =>
                /\ q[id].trace = <<"cache.Get", "metrics.cache_miss", "breaker.Allow",
                                   "metrics.failure:circuit_breaker">>
                /\ q[id].events = Expect(q[id], "resolve_failure", "circuit breaker open",
                                         <<>>, "circuit_breaker")
                /\ q[id].err = "circuit breaker open for " \o q[id].Server
                /\ q[id].ret = NoResponse
          /\ q[id].pc = "done" => StatsWritten(id)

\* A sub-worker was refused by its server's breaker and has finished, the
\* sub-worker whose failure opened the breaker too.
C16_Witness ==
    \E id \in SubWorkers :
       /\ q[id].allow = "false" /\ q[id].pc = "done" /\ published.resolve_failure = 2
       /\ \A jd \in Configured : q[jd].pc = "done"

\* What C17 says of each state: a sub-worker whose lookup hit has called the
\* cache and nothing else, and once it has returned it has published one
\* ResolveSuccess{source=cache} with the addresses of the entry returned.
C17_EachState ==
    \A id \in SubWorkers :
       q[id].hit =>
          /\ q[id].trace = <<"cache.Get", "metrics.cache_hit">>
          /\ q[id].err = ""
          /\ q[id].pc \in {"hit", "returned", "logged", "appended", "done"}
          /\ q[id].pc # "hit" =>
                q[id].events = Expect(q[id], "resolve_success", "", q[id].ret.Addresses,
                                      "cache")

\* What C17 says of each lookup: it hits exactly when the cache holds an
\* entry of the hostname that is not past its expiry, and what it returns is
\* that entry's response.
C17_EachGet ==
    \A id \in SubWorkers :
       (q[id].pc = "start" /\ q'[id].pc # "start") =>
          /\ q'[id].hit <=> Lookup(q[id].Hostname) = "live"
          /\ q'[id].hit =>
                q'[id].ret = shards[getShard(q[id].Hostname)].entries[q[id].Hostname].Response

\* C17: a lookup that finds an entry not yet expired returns that entry's
\* response, whichever server it is for; the sub-worker then publishes one
\* ResolveSuccess{source=cache} with the entry's addresses and calls neither
\* the breaker, nor the pool, nor the network.
C17_CacheHitShortCircuits == []C17_EachState /\ [][C17_EachGet]_vars

\* A sub-worker has returned the entry another server's query stored, with
\* an address in it.
C17_Witness ==
    \E id \in SubWorkers :
       /\ q[id].hit
       /\ q[id].pc = "done"
       /\ q[id].ret.Addresses # <<>>
       /\ q[id].ret.Server # q[id].Server

\* What C18 says of each state: a sub-worker whose query ended in a
\* transport error or a non-success rcode has made the calls of a query and
\* one RecordFailure, no RecordSuccess and no cache.Set; it then counts one
\* failure under its label and publishes one ResolveFailure, gives its client
\* back and returns an error. When no other sub-worker writes the server's
\* stats, they show one failure and its cause when the event is published.
C18_EachState ==
    \A id \in SubWorkers :
       q[id].outcome \in {"error", "rcode"} =>
          LET label == IF q[id].outcome = "error" THEN "query_error" ELSE "SERVFAIL"
              cause == IF q[id].outcome = "error" THEN "i/o timeout" ELSE "SERVFAIL"
              calls == <<"cache.Get", "metrics.cache_miss", "breaker.Allow", "pool.Get",
                         "metrics.total", "send", "breaker.RecordFailure">>
              counted == calls \o <<"metrics.failure:" \o label>>
              event == Expect(q[id], "resolve_failure", cause, <<>>,
                              IF q[id].outcome = "error" THEN "query_error" ELSE "rcode")
              error == IF q[id].outcome = "error"
                       THEN "DNS query failed: i/o timeout"
                       ELSE "DNS query returned error code: SERVFAIL"
          IN /\ q[id].ret = NoResponse
             /\ q[id].pc \in {"failed", "emitted", "returned", "done"}
             /\ q[id].pc = "failed" => q[id].trace = calls /\ q[id].events = <<>>
             /\ q[id].pc = "emitted" =>
                   /\ q[id].trace = counted
                   /\ q[id].events = event
                   /\ q[id].err = error
                   /\ Len(hostnames) = 1 =>
                         /\ stats[q[id].Server].Failures = 1
                         /\ stats[q[id].Server].LastError = [data |-> cause, len |-> Len(cause)]
             /\ q[id].pc \in {"returned", "done"} =>
                   /\ q[id].trace = counted \o <<"pool.Put">>
                   /\ q[id].events = event
                   /\ q[id].err = error

\* What C18 says of the step in which the query comes back failed: the
\* server's breaker records one failure.
C18_EachRecv ==
    \A id \in SubWorkers :
       (q[id].pc = "inflight" /\ q'[id].pc = "failed") =>
          /\ failures'[q[id].Server] = failures[q[id].Server] + 1
          /\ lastError'[q[id].Server] = now

\* C18: a query that ends in a transport error or a non-success rcode makes
\* one RecordFailure on its server's breaker and no RecordSuccess, counts
\* one failure (under query_error, or under the rcode's mnemonic), publishes
\* one ResolveFailure (source query_error, or rcode), stores nothing in the
\* cache and returns an error.
C18_FailedQueryRecordsOneFailure == []C18_EachState /\ [][C18_EachRecv]_vars

\* One sub-worker's query ended in a transport error and another's in a
\* non-success rcode, and both have finished.
C18_Witness ==
    \E id, jd \in SubWorkers :
       /\ q[id].outcome = "error" /\ q[id].pc = "done"
       /\ q[jd].outcome = "rcode" /\ q[jd].pc = "done"

\* The worker has run, or passed, its consistency check.
PastCheck(i) == w[i].pc \in {"returning", "released", "done"}

\* What C19 says of each state: a worker that collected fewer than two
\* responses does not run the consistency check, and once CycleComplete is
\* published every sub-worker of the cycle has run to its end.
C19_EachState ==
    /\ \A i \in 1..Len(hostnames) :
          (w[i].pc \notin {"idle", "queued", "fanout"} /\ Len(w[i].responses) < 2)
             => (~w[i].checked /\ w[i].gauge = <<>>)
    /\ cycle = "complete" =>
          /\ published.cycle_complete = 1
          /\ \A i \in 1..Len(hostnames) : w[i].pc = "done"
          /\ \A id \in Configured : q[id].pc = "done"

PairwiseEqual(responses) ==
    \A i, j \in 1..Len(responses) :
       /\ AddressSet(responses[i]) = AddressSet(responses[j])
       /\ Len(responses[i].Addresses) = Len(responses[j].Addresses)

\* C21: a hostname's gauge is written and its Inconsistent event published
\* only once all its sub-workers are done; a worker that collected at least
\* two responses sets the gauge once, to 1 if the responses are pairwise
\* equal and to 0 if not, and publishes Inconsistent exactly when they are
\* not; with fewer than two responses it writes no gauge and publishes
\* nothing.
C21_GaugeAndEventFollowPredicate ==
    \A i \in 1..Len(hostnames) :
       /\ (w[i].gauge # <<>> \/ w[i].inconsistent > 0) =>
             \A s \in ServerSet : q[SubWorker(hostnames[i], s)].pc = "done"
       /\ w[i].pc \in {"idle", "queued", "fanout"} =>
             (w[i].gauge = <<>> /\ w[i].inconsistent = 0)
       /\ PastCheck(i) =>
             IF Len(w[i].responses) >= 2
             THEN /\ w[i].gauge = <<boolToFloat64(PairwiseEqual(w[i].responses))>>
                  /\ w[i].inconsistent = 1 - boolToFloat64(PairwiseEqual(w[i].responses))
             ELSE w[i].gauge = <<>> /\ w[i].inconsistent = 0

\* C22: in a cycle of H hostnames and S servers in which every resolution
\* succeeds, one CycleStart is published when the cycle begins, no
\* ResolveFailure ever, and when the cycle has completed exactly H x S
\* ResolveSuccess events and one CycleComplete have been published and the
\* cycle-duration histogram has one more observation; before that it has none
\* and CycleComplete is not published.
C22_AllSucceedCounts ==
    LET HxS == Len(hostnames) * Len(servers) IN
    /\ published.cycle_start = IF cycle = "idle" THEN 0 ELSE 1
    /\ published.resolve_failure = 0
    /\ published.resolve_success <= HxS
    /\ cycle = "complete" =>
          /\ published.resolve_success = HxS
          /\ published.cycle_complete = 1
          /\ cycleDurations = 1
    /\ cycle # "complete" => (published.cycle_complete = 0 /\ cycleDurations = 0)

\* A cycle of two hostnames on two servers has completed with four
\* ResolveSuccess events, one per sub-worker and each served from the cache,
\* and one observed duration.
C22_Witness ==
    /\ cycle = "complete"
    /\ Len(hostnames) = 2 /\ Len(servers) = 2
    /\ published.resolve_success = 4
    /\ published.cycle_complete = 1
    /\ cycleDurations = 1
    /\ \A id \in Configured : q[id].pc = "done" /\ Len(q[id].events) = 1 /\ q[id].hit

\* C23: no stack of the pool ever holds more than MaxSize idle clients: a
\* Put that finds the server's stack at MaxSize discards the client and is
\* counted as dropped, any other Put pushes it on top and is counted as
\* returned.
C23_StackNeverExceedsMaxSize ==
    /\ \A k \in PoolMapKeys : Len(poolClients[k]) <= poolMaxSize
    /\ poolOp.op = "Put" =>
          LET stack == poolClients[poolOp.server] IN
          IF poolOp.preLen >= poolMaxSize
          THEN /\ poolOp.label = "dropped"
               /\ Len(stack) = poolOp.preLen
               /\ \A k \in PoolMapKeys : \A n \in 1..Len(poolClients[k]) :
                     poolClients[k][n] # poolOp.client
          ELSE /\ poolOp.label = "returned"
               /\ Len(stack) = poolOp.preLen + 1
               /\ stack[Len(stack)] = poolOp.client

\* A Put has just found the stack at a MaxSize of 2 and dropped the client.
C23_Witness ==
    /\ poolOp.op = "Put"
    /\ poolOp.label = "dropped"
    /\ poolOp.preLen = 2

\* C24: for a server string with or without a port, the Get that follows a
\* Put of that string which kept the client hands out that client, its
\* timeout being the pool's.
C24_PutThenGetReuses ==
    (poolOp.op = "Get" /\ poolOp.expected # 0) =>
        /\ poolOp.client = poolOp.expected
        /\ poolOp.label = "pooled"
        /\ clientTimeout[poolOp.client] = poolTimeout

\* C25: Start runs one whole cycle before it starts the ticker: when the
\* ticker is started exactly one cycle has begun and it has completed, no
\* tick fires and no tick-driven cycle begins while the initial cycle runs,
\* and a tick-driven cycle begins only with every earlier cycle completed.
C25_InitialCycleBeforeTicker ==
    /\ startPc \in {"start", "initial", "ticker"} =>
          (~tickerStarted /\ ticksFired = 0 /\ ticksReceived = 0)
    /\ startPc = "initial" => (cyclesStarted = 1 /\ cyclesCompleted = 0)
    /\ loopOp = "ticker" => (cyclesStarted = 1 /\ cyclesCompleted = 1)
    /\ tickerStarted => cyclesCompleted >= 1
    /\ loopOp = "tick" => (cyclesCompleted >= 1 /\ cyclesStarted = cyclesCompleted + 1)

\* The ticker has just been started, the context being cancelled already.
C25_Witness == loopOp = "ticker" /\ tickerStarted /\ cyclesCompleted = 1 /\ ctxDone

\* What C26 says of each state: the run loop has started one cycle per tick
\* received, and Start returns nothing but nil, only once ctx is cancelled.
C26_EachState ==
    /\ cyclesStarted = ticksReceived + (IF startPc = "start" THEN 0 ELSE 1)
    /\ cyclesCompleted = cyclesStarted - (IF startPc \in {"initial", "cycle"} THEN 1 ELSE 0)
    /\ startRet \in {"running", "nil"}
    /\ startPc = "returned" <=> startRet = "nil"
    /\ startPc = "returned" => ctxDone

\* C26: the run loop runs one cycle per tick it receives and, once ctx is
\* cancelled, returns nil, whether or not another tick ever comes.
C26_OneCyclePerTickThenNil ==
    /\ []C26_EachState
    /\ ctxDone ~> (startPc = "returned" /\ startRet = "nil")

\* The loop has returned nil after two tick-driven cycles, a fired tick
\* still waiting in the channel.
C26_Witness ==
    /\ startPc = "returned"
    /\ startRet = "nil"
    /\ ticksReceived = 2
    /\ cyclesCompleted = 3
    /\ tickChan = 1

\* C27: the health handler answers 200 "healthy" exactly when some server in
\* the status map is marked healthy, and 503 "unhealthy" otherwise, also
\* when no probe has been recorded yet.
C27_HealthyIffSomeServerHealthy ==
    healthOp = "serve" =>
        LET answer == healthResponses[Len(healthResponses)]
            some == \E k \in DOMAIN healthStatus : healthStatus[k] = TRUE
        IN /\ answer \in {[code |-> 200, body |-> "healthy"],
                          [code |-> 503, body |-> "unhealthy"]}
           /\ answer.code = 200 <=> some
           /\ DOMAIN healthStatus = {} => answer.code = 503

\* The handler has answered 503 before any probe, and now 200 with one of
\* two servers marked unhealthy.
C27_Witness ==
    /\ healthOp = "serve"
    /\ healthResponses[1].code = 503
    /\ healthResponses[Len(healthResponses)].code = 200
    /\ \E k \in DOMAIN healthStatus : ~healthStatus[k]

\* C28: every Get call counts once, as a hit or as a miss: whenever no Get
\* is between its two locks, the hit and miss counters add up to the number
\* of Get calls that have returned.
C28_EveryGetCounted ==
    (\A p \in Getters : getPc[p].pc = "idle") => cacheHits + cacheMisses = cacheGets

\* The sizes of the entries of a shard that have not expired, added up, and
\* the largest size among the responses stored.
RECURSIVE SumSizes(_, _)
SumSizes(entries, keys) ==
    IF keys = {} THEN 0
    ELSE LET k == CHOOSE x \in keys : TRUE IN
         (IF now < entries[k].Expires THEN entries[k].Size ELSE 0)
            + SumSizes(entries, keys \ {k})
LargestEntry ==
    CHOOSE n \in {estimateSize(r) : r \in UNION {SizedResponsesFor(k) : k \in SizeKeys}} :
       \A r \in UNION {SizedResponsesFor(k) : k \in SizeKeys} : estimateSize(r) <= n

\* C29: whenever no Set is in progress, the sizes of the unexpired entries
\* of every shard add up to at most the per-shard quota plus the largest
\* size of a single entry.
C29_ShardSizeWithinQuotaPlusLargest ==
    \A i \in DOMAIN shards :
       SumSizes(shards[i].entries, DOMAIN shards[i].entries) <= ShardQuota + LargestEntry

\* C30: every client a resolve pipeline acquired is returned to the pool
\* exactly once on every exit path after the acquisition (transport error,
\* non-success rcode, success): one acquisition at most, no return before or
\* without it, the client held while the query is out and handled, and one
\* return once resolveWithServer has returned. No client is returned when the
\* acquisition failed or was never attempted (cache hit, circuit open).
C30_ClientReturnedExactlyOnce ==
    \A id \in SubWorkers :
        LET r == q[id]
            got == Count(r.trace, "pool.Get")
            put == Count(r.trace, "pool.Put")
        IN /\ got <= 1 /\ put <= got
           /\ r.pc \in {"inflight", "failed", "decoded", "storing", "stored", "emitted"} =>
                 got = 1 /\ put = 0
           /\ r.pc \in {"returned", "logged", "appended", "done"} =>
                 /\ put = got
                 /\ r.outcome \in {"error", "rcode", "ok"} => got = 1 /\ put = 1
                 /\ (r.hit \/ r.allow = "false" \/ r.outcome = "client_pool") =>
                       got = 0 /\ put = 0

\* Between two sub-workers of a server named with its port, one has published
\* its failure and still holds its client, while the other holds the client
\* the pool kept for the server.
C30_Witness ==
    \E a, b \in SubWorkers :
        /\ q[a].pc = "emitted" /\ q[a].outcome = "error"
        /\ Count(q[a].trace, "pool.Get") = 1 /\ Count(q[a].trace, "pool.Put") = 0
        /\ q[b].pc = "done" /\ q[b].outcome = "rcode"
        /\ Count(q[b].trace, "pool.Put") = 1
        /\ q[a].Server = "s1:53" /\ q[b].Server = "s1:53"
        /\ poolIdle["s1:53"] = 0

\* The lists that hold the same responses in another order.
Reorderings(responses) ==
    LET n == Len(responses)
        perms == {f \in [1..n -> 1..n] : \A i, j \in 1..n : f[i] = f[j] => i = j}
    IN {[i \in 1..n |-> responses[f[i]]] : f \in perms}

\* C39: the consistency predicate gives the same boolean for every order of
\* the same responses: what CompareResponses returned for a list is what it
\* returns for each reordering of the list.
C39_OrderIndependent ==
    cmpOut.done =>
        \A other \in Reorderings(cmpIn) : CompareResponses(other) = cmpOut.consistent

\* What C40 says of each state: every worker started is waiting for a slot,
\* holds one, has given it back and is about to report done, or has
\* finished; and once the cycle function has returned every worker has
\* finished and no slot is held.
C40_EachState ==
    /\ queued + sem + leaving + finished = loopIndex
    /\ cycleOver => (finished = hostCount /\ sem = 0 /\ leaving = 0 /\ queued = 0)

\* C40: with every query returning, every cycle terminates for any number of
\* hostnames, more than ten included: each worker gets a slot and gives it
\* back, and resolveAll returns after all workers have finished, with no
\* slot held.
C40_CycleTerminates ==
    /\ []C40_EachState
    /\ <>cycleOver

\* A cycle of eleven hostnames is over: every worker has finished and the
\* semaphore is empty.
C40_Witness == cycleOver /\ hostCount = 11 /\ finished = 11 /\ sem = 0

\* C37: publish never sends on a closed channel and never panics, however
\* publish and unsubscribe interleave: no channel a publisher has still to
\* visit is closed, a send attempt is never on a closed channel, and a
\* closed channel is off the bus.
C37_NoSendOnClosedChannel ==
    /\ \A p \in Publishers : \A c \in pub[p].todo : ~chans[c].closed
    /\ busOp.op = "send" => (~chans[busOp.ch].closed /\ ~busPanic)
    /\ \A c \in subs : ~chans[c].closed

\* A channel has just been closed by its unsubscribe handle while a
\* publisher is inside publish, having sent to another subscriber already.
C37_Witness ==
    /\ busOp.op = "close"
    /\ chans[busOp.ch].closed
    /\ ~busPanic
    /\ \E p \in Publishers : pub[p].pc = "sending" /\ pub[p].sent # {}

\* C34: once every structural change of the cache is complete (Set, Delete,
\* Clear, eviction, removal of an expired entry by Get) and none is in
\* progress, the cache_size gauge is the number of entries of all shards.
C34_SizeGaugeCountsEntries ==
    (/\ \A p \in Getters : getPc[p].pc = "idle"
     /\ \A p \in Setters : gaugePc[p].pc = "idle")
    => cacheSizeGauge = getTotalEntries(shards)

\* The Size fields of the entries in a shard's map, added up.
RECURSIVE SumEntrySizes(_, _)
SumEntrySizes(entries, keys) ==
    IF keys = {} THEN 0
    ELSE LET k == CHOOSE x \in keys : TRUE IN
         entries[k].Size + SumEntrySizes(entries, keys \ {k})

\* C38: whenever a shard's lock is free, shard.size is the sum of Size over
\* the entries in the shard's map, after any interleaving of Set (of a new
\* key or over an existing one, with or without eviction), Delete, Clear and
\* the removal of an expired entry by Get.
C38_ShardSizeIsSumOfEntries ==
    \A i \in DOMAIN shards :
       shards[i].size = SumEntrySizes(shards[i].entries, DOMAIN shards[i].entries)

\* A Set has just replaced the entry of its key, after evicting another
\* key's entry, in a cache on which a Get has missed before.
C38_Witness ==
    /\ cacheOp.op = "Set"
    /\ cacheOp.evicted # {}
    /\ cacheOp.key \in cacheOp.preKeys \ cacheOp.evicted
    /\ shards[getShard(cacheOp.key)].size > 0
    /\ cacheGets > 0 /\ cacheMisses > 0 /\ cacheHits = 0

\* C36: every response the sub-worker for a server adds to its hostname's
\* list names that server as the one that produced it, so that the list
\* holds one answer per server that succeeded, each obtained from it.
C36_ResponseFromOwnServer ==
    \A id \in Configured :
       (q[id].pc = "done" /\ q[id].err = "") =>
           /\ q[id].ret.Server = q[id].Server
           /\ \E i \in 1..Len(hostnames) : \E k \in 1..Len(w[i].responses) :
                 /\ hostnames[i] = q[id].Hostname
                 /\ w[i].responses[k].Server = q[id].Server

\* The increments a sub-worker has made of the failure counter, under any
\* reason label.
FailureIncrements(r) ==
    Cardinality({k \in 1..Len(r.trace) :
                    r.trace[k] \in {"metrics.failure:query_error", "metrics.failure:SERVFAIL",
                                    "metrics.failure:circuit_breaker"}})

\* C31: a query whose duration is observed (labels server, hostname)
\* increments exactly one of the success counter and the failure counter of
\* the same labels, never both and never neither: the failure counter under
\* the rcode when the response's rcode is not success, the success counter
\* otherwise.
C31_ObservedQueryCountedOnce ==
    \A id \in SubWorkers :
       /\ q[id].durations <= 1
       /\ Count(q[id].trace, "metrics.success") + FailureIncrements(q[id]) <= 1
       /\ (q[id].durations = 1 /\ q[id].pc \notin {"failed", "decoded"}) =>
             /\ Count(q[id].trace, "metrics.success") + FailureIncrements(q[id]) = 1
             /\ q[id].outcome = "ok" => Count(q[id].trace, "metrics.success") = 1
             /\ q[id].outcome = "rcode" =>
                   Count(q[id].trace, "metrics.failure:SERVFAIL") = 1

\* Of two queries whose durations were observed, one was counted as a
\* success and the other as a failure, and both sub-workers have finished.
C31_Witness ==
    \E id, jd \in SubWorkers :
       /\ q[id].durations = 1 /\ q[id].outcome = "ok" /\ q[id].pc = "done"
       /\ q[jd].durations = 1 /\ q[jd].outcome = "rcode" /\ q[jd].pc = "done"

\* The sub-workers of a server, and the increments made so far of the
\* server's counters.
StatWorkersOf(s) == {id \in StatConfigured : id[2] = s}
\* The increments among a list of statements, and those the workers have
\* made so far.
Increments(writes) == Cardinality({k \in 1..Len(writes) : writes[k].field # "LastError"})
RECURSIVE IncrementsMade(_)
IncrementsMade(ids) ==
    IF ids = {} THEN 0
    ELSE LET id == CHOOSE x \in ids : TRUE IN
         (IF sw[id].pc = "idle" THEN 0
          ELSE Increments(StatWrites(sw[id].kind, id[2])) - Increments(sw[id].todo))
            + IncrementsMade(ids \ {id})

\* C33: at any moment at most one worker is writing a given server's
\* ServerStats, two writers of one server's stats never running together,
\* so that no increment is lost: the counters add up to the increments made.
C33_SingleWriterPerServer ==
    \A s \in ServerSet :
       /\ Cardinality({id \in StatWorkersOf(s) : sw[id].pc = "loaded"}) <= 1
       /\ (\A id \in StatWorkersOf(s) : sw[id].pc # "loaded") =>
             stats[s].Total + stats[s].Failures = IncrementsMade(StatWorkersOf(s))

\* C35: once the cycle's sub-workers have all finished, a server's total is
\* the number of its resolutions that succeeded (from the cache or from the
\* network) and its failures the number that failed, one count each.
C35_OneCountPerResolution ==
    (\A id \in StatConfigured : sw[id].pc = "done") =>
        \A s \in ServerSet :
           /\ stats[s].Total =
                 Cardinality({id \in StatWorkersOf(s) : sw[id].kind \in {"hit", "ok"}})
           /\ stats[s].Failures =
                 Cardinality({id \in StatWorkersOf(s) : sw[id].kind \in {"open", "error", "rcode"}})

\* C32: no thread performs network or file I/O while it holds one of the
\* system's locks: whatever I/O a goroutine of the health checker has made
\* (the TCP dial of a probe, the write of a response), it held no lock on
\* the status map while making it.
C32_NoIoUnderLock ==
    healthIo.kind # "none" => healthIo.lock = "none"
====
